---------------------------- MODULE Spec2Model ----------------------------
(***************************************************************************)
(* TodoEvolve backend: the tool-calling chat loop (routes/chat.py), the    *)
(* provider gateway and response interpreter (ai/engine.py), the tool      *)
(* executor (ai/mcp_server.py) and the day planner skill (skills.py).      *)
(*                                                                         *)
(* Specifications:                                                         *)
(*   SpecGateway  one call of dual_provider_chat, step by step             *)
(*   Spec         one chat request running the loop up to the ceiling      *)
(*   SpecExec     one chat request whose tool calls range over the         *)
(*                executor's argument space, on a store with several users *)
(***************************************************************************)
EXTENDS Integers, Sequences, FiniteSets, TLC

VARIABLES
    \* ---- provider gateway (dual_provider_chat / call_openrouter / call_gemini)
    gw_cfg,          \* which provider clients exist (set at import time)
    gw_pc,           \* position inside dual_provider_chat
    gw_provider,     \* index into providers
    gw_attempt,      \* the retry loop's attempt (0-based)
    gw_model,        \* index into OPENROUTER_MODELS inside call_openrouter
    gw_last_error,   \* dual_provider_chat's last_error
    gw_log,          \* observable trace: invocations, requests, sleeps
    gw_result,       \* the returned (text, provider id)
    \* ---- chat request (chat_endpoint)
    pc,              \* position of the request
    current_user,    \* the authenticated user
    messages,        \* the in-memory message list sent to the gateway
    turn_count,
    action_performed,
    last_tool_name,
    used_model,
    ai_message,      \* the text of the latest gateway reply
    tool_result,     \* the latest result of handle_tool_call
    plan_reply,      \* the text the day planner's latest gateway call returned
    response,        \* what chat_endpoint returned
    history,         \* committed ChatMessage rows
    \* ---- database session and task table
    tasks,           \* committed Task rows, by id
    pending,         \* Task objects added to the session and not yet flushed
    \* ---- observers
    gateway_calls,   \* the loop's invocations of dual_provider_chat
    nested_calls,    \* the day planner's invocations of dual_provider_chat
    tools_run,       \* invocations of handle_tool_call during the request
    \* ---- concurrent requests
    reqs,            \* the frame (locals) of each chat_endpoint call in progress
    \* ---- console TaskManager (src/console)
    tm_tasks,        \* TaskManager._tasks: Task objects by id
    tm_next_id,      \* TaskManager._next_id
    tm_last,         \* the latest TaskManager call and how it ended
    \* ---- authentication routes (routes/auth.py)
    now,             \* datetime.utcnow(), in minutes
    ticks,           \* how often the clock has moved
    users,           \* table users, by id
    refresh_tokens,  \* table refresh_tokens
    reset_tokens,    \* table password_reset_tokens
    verification_tokens,  \* table email_verification_tokens
    login_attempts,  \* the module's dict login_attempts
    minted,          \* the values secrets.token_urlsafe has returned
    auth_seen,       \* what clients have seen happen to tokens
    failed_at,       \* by address: when its latest 401 answers of login came
    auth_last        \* the latest auth request and its answer

auth_vars == <<now, ticks, users, refresh_tokens, reset_tokens,
               verification_tokens, login_attempts, minted, auth_seen,
               failed_at, auth_last>>

gw_vars == <<gw_cfg, gw_pc, gw_provider, gw_attempt, gw_model, gw_last_error,
             gw_log, gw_result>>
chat_vars == <<pc, current_user, messages, turn_count, action_performed,
               last_tool_name, used_model, ai_message, tool_result, plan_reply,
               response, history, tasks, pending, gateway_calls, nested_calls,
               tools_run, reqs, tm_tasks, tm_next_id, tm_last, auth_vars>>
vars == <<gw_vars, chat_vars>>

\* the variables of the other specifications
server_vars == <<gw_vars, pc, current_user, messages, turn_count,
                 action_performed, last_tool_name, used_model, ai_message,
                 tool_result, plan_reply, response, history, tasks, pending,
                 gateway_calls, nested_calls, tools_run, reqs, auth_vars>>

\* everything but the authentication routes' state
non_auth_vars == <<gw_vars, pc, current_user, messages, turn_count,
                   action_performed, last_tool_name, used_model, ai_message,
                   tool_result, plan_reply, response, history, tasks, pending,
                   gateway_calls, nested_calls, tools_run, reqs, tm_tasks,
                   tm_next_id, tm_last>>

None == "<None>"

\* A text is a layout (form) around at most one JSON value (an index into
\* JsonValues, 0 for none).
Text(form, call) == [form |-> form, call |-> call]

NoText == Text(None, 0)

NoResult == [text |-> NoText, model |-> <<>>]

(***************************************************************************)
(* Strings that the code searches are sequences of characters.             *)
(***************************************************************************)
UpperCase == <<"A","B","C","D","E","F","G","H","I","J","K","L","M","N","O","P","Q","R","S","T","U","V","W","X","Y","Z">>

LowerCase == <<"a","b","c","d","e","f","g","h","i","j","k","l","m","n","o","p","q","r","s","t","u","v","w","x","y","z">>

Lower(c) ==
    IF \E i \in 1..Len(UpperCase) : UpperCase[i] = c
    THEN LowerCase[CHOOSE i \in 1..Len(UpperCase) : UpperCase[i] = c]
    ELSE c

LowerStr(s) == [i \in 1..Len(s) |-> Lower(s[i])]

\* Python's `sub in s`
Contains(s, sub) ==
    \E i \in 0..(Len(s) - Len(sub)) :
        \A j \in 1..Len(sub) : s[i + j] = sub[j]

\* str(e) of the exceptions the provider calls raise
ErrorText(e) ==
    CASE e = "timeout" ->
           <<"R","e","q","u","e","s","t"," ","t","i","m","e","d"," ","o","u","t",".">>
      [] e = "e429" ->
           <<"E","r","r","o","r"," ","c","o","d","e",":"," ","4","2","9">>
      [] e = "quota" ->
           <<"Q","u","o","t","a"," ","e","x","c","e","e","d","e","d">>
      [] e = "rate" ->
           <<"R","a","t","e"," ","l","i","m","i","t"," ","r","e","a","c","h","e","d">>
      [] e = "or_notconf" ->
           <<"O","p","e","n","R","o","u","t","e","r"," ","n","o","t"," ",
             "c","o","n","f","i","g","u","r","e","d">>
      [] e = "gem_notconf" ->
           <<"G","e","m","i","n","i"," ","n","o","t"," ",
             "c","o","n","f","i","g","u","r","e","d">>

\* errors a request to OpenRouter / to Gemini may raise
OpenRouterErrors == {"timeout", "e429", "rate"}
GeminiErrors == {"timeout", "quota"}

(***************************************************************************)
(* Provider gateway: engine.py                                             *)
(***************************************************************************)
OPENROUTER_MODELS ==
    << [vendor |-> "meta-llama", name |-> "llama-3.3-70b-instruct", tag |-> ""],
       [vendor |-> "google",     name |-> "gemini-2.0-flash-001",   tag |-> ""],
       [vendor |-> "mistralai",  name |-> "mistral-large-2411",     tag |-> ""],
       [vendor |-> "openai",     name |-> "gpt-4o-mini",            tag |-> ""] >>

providers == <<"OpenRouter", "Gemini">>

max_retries == 2

OpenRouterIdVendor(model) == <<"openrouter", model.vendor>>

\* f"openrouter/{model.split('/')[1].split(':')[0]}"
OpenRouterId(model) == <<"openrouter", model.name>>

GeminiId == <<"gemini", "1.5-flash">>

FallbackId == <<"fallback">>

DegradedText == Text("degraded", 0)

\* what the gateway hands back when every provider failed
FallbackReturnLeaky(last_error) ==
    [text |-> Text(last_error, 0), model |-> FallbackId]

FallbackReturn(last_error) == [text |-> DegradedText, model |-> FallbackId]

\* the rate-limit test of dual_provider_chat
IsRateLimit(e) ==
    \/ Contains(ErrorText(e), <<"4","2","9">>)
    \/ Contains(LowerStr(ErrorText(e)), <<"r","a","t","e">>)
    \/ Contains(LowerStr(ErrorText(e)), <<"q","u","o","t","a">>)

\* seconds slept after failed attempt `attempt` (0-based) of a provider
BackoffSeconds(attempt) == 1 * (attempt + 1)

\* the except-branch of dual_provider_chat and the two for-loops around it:
\* where control goes after provider p's attempt a raised e
NextProviderOrFallback(p, e) ==
    IF p < Len(providers)
    THEN [pc |-> "attempt", provider |-> p + 1, attempt |-> 0, result |-> NoResult]
    ELSE [pc |-> "returned", provider |-> p, attempt |-> 0,
          result |-> FallbackReturn(e)]

AfterFailureRetryRateLimited(p, a, e) ==
    IF a < max_retries - 1
    THEN [pc |-> "sleep", provider |-> p, attempt |-> a, result |-> NoResult]
    ELSE NextProviderOrFallback(p, e)

AfterFailureSleepAlways(p, a, e) ==
    IF IsRateLimit(e)
    THEN NextProviderOrFallback(p, e)
    ELSE [pc |-> "sleep", provider |-> p, attempt |-> a, result |-> NoResult]

AfterFailure(p, a, e) ==
    IF IsRateLimit(e)
    THEN NextProviderOrFallback(p, e)
    ELSE IF a < max_retries - 1
         THEN [pc |-> "sleep", provider |-> p, attempt |-> a, result |-> NoResult]
         ELSE NextProviderOrFallback(p, e)

\* the attempt that follows a backoff sleep
AfterSleep(p, a) == [pc |-> "attempt", provider |-> p, attempt |-> a + 1]

Invoke(p, a) == [ev |-> "invoke", provider |-> providers[p], attempt |-> a]

Request(p, m, outcome) ==
    [ev |-> "request", provider |-> providers[p], model |-> m, outcome |-> outcome]

Slept(p, secs) == [ev |-> "sleep", provider |-> providers[p], secs |-> secs]

Raised(p, a, e) ==
    [ev |-> "raised", provider |-> providers[p], attempt |-> a, error |-> e]

\* replies a provider can give in the gateway specification
GatewayReplies == {Text("prose", 0), Text("braces", 0)}

GwFail(e, log) ==
    LET n == AfterFailure(gw_provider, gw_attempt, e) IN
    /\ gw_last_error' = e
    /\ gw_log' = Append(log, Raised(gw_provider, gw_attempt, e))
    /\ gw_pc' = n.pc
    /\ gw_provider' = n.provider
    /\ gw_attempt' = n.attempt
    /\ gw_result' = n.result
    /\ gw_model' = 0

GwReturn(text, id, log) ==
    /\ gw_log' = log
    /\ gw_pc' = "returned"
    /\ gw_result' = [text |-> text, model |-> id]
    /\ UNCHANGED <<gw_provider, gw_attempt, gw_last_error>>
    /\ gw_model' = gw_model

\* provider_func = call_openrouter: entry, up to the first request
CallOpenRouter ==
    /\ gw_pc = "attempt"
    /\ providers[gw_provider] = "OpenRouter"
    /\ LET log == Append(gw_log, Invoke(gw_provider, gw_attempt)) IN
       IF ~gw_cfg.openrouter
       THEN GwFail("or_notconf", log)
       ELSE /\ gw_pc' = "or_model"
            /\ gw_model' = 1
            /\ gw_log' = log
            /\ UNCHANGED <<gw_provider, gw_attempt, gw_last_error, gw_result>>
    /\ UNCHANGED <<gw_cfg, chat_vars>>

\* one iteration of `for model in OPENROUTER_MODELS`
OpenRouterModel ==
    /\ gw_pc = "or_model"
    /\ \/ \E reply \in GatewayReplies :
            GwReturn(reply, OpenRouterId(OPENROUTER_MODELS[gw_model]),
                     Append(gw_log, Request(gw_provider, gw_model, "ok")))
       \/ \E e \in OpenRouterErrors :
            LET log == Append(gw_log, Request(gw_provider, gw_model, e)) IN
            IF gw_model < Len(OPENROUTER_MODELS)
            THEN /\ gw_model' = gw_model + 1
                 /\ gw_log' = log
                 /\ UNCHANGED <<gw_pc, gw_provider, gw_attempt,
                                gw_last_error, gw_result>>
            ELSE GwFail(e, log)   \* raise last_error
    /\ UNCHANGED <<gw_cfg, chat_vars>>

\* provider_func = call_gemini
CallGemini ==
    /\ gw_pc = "attempt"
    /\ providers[gw_provider] = "Gemini"
    /\ LET log == Append(gw_log, Invoke(gw_provider, gw_attempt)) IN
       IF ~gw_cfg.gemini
       THEN GwFail("gem_notconf", log)
       ELSE \/ \E reply \in GatewayReplies :
                 GwReturn(reply, GeminiId,
                          Append(log, Request(gw_provider, 1, "ok")))
            \/ \E e \in GeminiErrors :
                 GwFail(e, Append(log, Request(gw_provider, 1, e)))
    /\ UNCHANGED <<gw_cfg, chat_vars>>

\* await asyncio.sleep(1 * (attempt + 1)), then the next attempt
BackoffSleep ==
    /\ gw_pc = "sleep"
    /\ LET n == AfterSleep(gw_provider, gw_attempt) IN
       /\ gw_log' = Append(gw_log, Slept(gw_provider, BackoffSeconds(gw_attempt)))
       /\ gw_pc' = n.pc
       /\ gw_provider' = n.provider
       /\ gw_attempt' = n.attempt
    /\ UNCHANGED <<gw_cfg, gw_model, gw_last_error, gw_result, chat_vars>>

(***************************************************************************)
(* JSON values and texts                                                   *)
(***************************************************************************)
\* the characters of the strings that titles and title filters take
Chars(t) ==
    CASE t = "Buy milk" -> <<"B","u","y"," ","m","i","l","k">>
      [] t = "MILK run" -> <<"M","I","L","K"," ","r","u","n">>
      [] t = "Call mom" -> <<"C","a","l","l"," ","m","o","m">>
      [] t = "milk" -> <<"m","i","l","k">>
      [] t = "m_lk" -> <<"m","_","l","k">>
      [] t = "Code" -> <<"C","o","d","e">>
      [] t = "Lunch" -> <<"L","u","n","c","h">>
      [] t = "Untitled" -> <<"U","n","t","i","t","l","e","d">>
      [] OTHER -> <<>>

Obj(f) == [t |-> "obj", v |-> f]

List(q) == [t |-> "list", v |-> q]

Num(n) == [t |-> "num", v |-> n]

Str(x) == [t |-> "str", v |-> x]

Null == [t |-> "null"]

NoArgs == [x \in {} |-> 0]

ToolCall(tool, args) == Obj([tool |-> tool, arguments |-> args])

\* the JSON values that replies carry
JsonValues ==
    << ToolCall("add_task", [title |-> "Buy milk"]),                          \* 1
       ToolCall("add_task", [title |-> "Call mom", priority |-> "high",
                             tags |-> <<"home">>, user_id |-> "bob"]),        \* 2
       ToolCall("add_task", [title |-> "MILK run", priority |-> "urgent"]),   \* 3
       ToolCall("add_task", [priority |-> "low"]),                            \* 4
       Obj([tool |-> "list_tasks"]),                                          \* 5
       ToolCall("list_tasks", [status |-> "pending", limit |-> 1]),           \* 6
       ToolCall("list_tasks", [status |-> "completed", user_id |-> "bob"]),   \* 7
       ToolCall("complete_task", [task_id |-> 1]),                            \* 8
       ToolCall("complete_task", [task_id |-> 2, completed |-> FALSE]),       \* 9
       ToolCall("complete_task", NoArgs),                                     \* 10
       ToolCall("bulk_complete_tasks", [task_ids |-> <<1, 2, 3>>]),           \* 11
       ToolCall("bulk_complete_tasks", NoArgs),                               \* 12
       ToolCall("delete_task", [task_id |-> 1]),                              \* 13
       ToolCall("delete_task", [title |-> "milk"]),                           \* 14
       ToolCall("delete_task", NoArgs),                                       \* 15
       ToolCall("delete_task", [task_id |-> 2, user_id |-> "bob"]),           \* 16
       ToolCall("bulk_delete_tasks", [task_ids |-> <<1, 2, 3>>]),             \* 17
       ToolCall("bulk_delete_tasks", [task_ids |-> <<2, 999>>]),              \* 18
       ToolCall("update_task", [task_id |-> 1, title |-> "Call mom",
                                description |-> "soon"]),                     \* 19
       ToolCall("update_task", [task_id |-> 2, priority |-> "urgent",
                                user_id |-> "bob"]),                          \* 20
       ToolCall("update_task", NoArgs),                                       \* 21
       ToolCall("get_weather", [city |-> "Paris"]),                           \* 22
       ToolCall("get_weather", NoArgs),                                       \* 23
       ToolCall("plan_day", [request |-> "plan"]),                            \* 24
       ToolCall("detect_language", [text |-> "hello"]),                       \* 25
       ToolCall("suggest_priority", [text |-> "urgent"]),                     \* 26
       ToolCall("schedule_reminder", [text |-> "tomorrow"]),                  \* 27
       ToolCall("get_deployment_blueprint", [type |-> "minimal"]),            \* 28
       ToolCall("send_email", [to |-> "bob"]),                                \* 29
       Obj([foo |-> 1]),                                                      \* 30
       Obj(NoArgs),                                                           \* 31
       Num(42),                                                               \* 32
       List(<< Obj([title |-> "Code", priority |-> "high", tags |-> <<"work">>]),
               Obj([title |-> "Lunch"]) >>),                                  \* 33
       List(<<>>),                                                            \* 34
       Obj([tasks |-> 0]),                                                    \* 35
       List(<< Obj([title |-> "Code"]), Str("Lunch") >>),                     \* 36
       List(<< Obj([priority |-> "urgent"]) >>),                              \* 37
       ToolCall("delete_task", [task_id |-> 999, title |-> "milk"]),          \* 38
       ToolCall("list_tasks", [status |-> "all"]),                            \* 39
       ToolCall("list_tasks", [status |-> "all", limit |-> 50]),              \* 40
       ToolCall("delete_task", [title |-> "m_lk"])                            \* 41
    >>

\* a text as the pieces the interpreter can tell apart
Prose == [k |-> "prose"]

Fence == [k |-> "fence"]              \* ```

FenceJson == [k |-> "fencejson"]      \* ```json

LBrace == [k |-> "lbrace"]            \* a { in prose

RBrace == [k |-> "rbrace"]            \* a } in prose

Json(n) == [k |-> "json", v |-> JsonValues[n]]

Slot == [k |-> "slot"]

\* where the JSON value stands in a text of each form
Layout(form) ==
    CASE form = "bare"         -> <<Slot>>
      [] form = "fenced_json"  -> <<Prose, FenceJson, Slot, Fence>>
      [] form = "fenced"       -> <<Prose, Fence, Slot, Fence, Prose>>
      [] form = "embedded"     -> <<Prose, Slot, Prose>>
      [] form = "two_values"   -> <<Slot, Prose, Slot>>
      [] form = "braces"       -> <<Prose, LBrace, Prose, RBrace>>
      [] form = "open_fence"   -> <<Prose, FenceJson, Prose>>
      [] form = "fenced_then_bad_json" ->
           <<Prose, Fence, Slot, Fence, Prose, FenceJson, LBrace, Prose, RBrace, Fence>>
      [] OTHER                 -> <<Prose>>   \* prose, the degraded text

TextAtoms(text) ==
    [i \in DOMAIN Layout(text.form) |->
        IF Layout(text.form)[i].k = "slot" THEN Json(text.call)
        ELSE Layout(text.form)[i]]

(***************************************************************************)
(* Response interpreter: engine.py, extract_json                           *)
(***************************************************************************)
\* json.loads of a text: [ok, v]
JsonLoads(atoms) ==
    IF Len(atoms) = 1 /\ atoms[1].k = "json"
    THEN [ok |-> TRUE, v |-> atoms[1].v]
    ELSE [ok |-> FALSE, v |-> Null]

IsFence(a) == a.k \in {"fence", "fencejson"}

\* s.split(sep)[1].split("```")[0].strip() where sep is the first atom of
\* kind `kind`
FencedBlock(atoms, kind) ==
    LET first == CHOOSE i \in 1..Len(atoms) :
                    /\ atoms[i].k \in kind
                    /\ \A j \in 1..(i - 1) : atoms[j].k \notin kind
        closers == {j \in (first + 1)..Len(atoms) : IsFence(atoms[j])}
        stop == IF closers = {} THEN Len(atoms) + 1
                ELSE CHOOSE j \in closers : \A k \in closers : j <= k
    IN SubSeq(atoms, first + 1, stop - 1)

HasKind(atoms, kind) == \E i \in 1..Len(atoms) : atoms[i].k \in kind

HasOpenBrace(a) ==
    \/ a.k = "lbrace"
    \/ a.k = "json" /\ a.v.t = "obj"
    \/ a.k = "json" /\ a.v.t = "list" /\ \E i \in 1..Len(a.v.v) : a.v.v[i].t = "obj"

HasCloseBrace(a) ==
    \/ a.k = "rbrace"
    \/ a.k = "json" /\ a.v.t = "obj"
    \/ a.k = "json" /\ a.v.t = "list" /\ \E i \in 1..Len(a.v.v) : a.v.v[i].t = "obj"

\* re.search(r'(\{.*\})', text, re.DOTALL) followed by json.loads
RegexObject(atoms) ==
    LET opens == {i \in 1..Len(atoms) : HasOpenBrace(atoms[i])}
        closes == {i \in 1..Len(atoms) : HasCloseBrace(atoms[i])}
    IN IF opens = {} \/ closes = {}
       THEN [ok |-> FALSE, v |-> Null]
       ELSE LET i == CHOOSE x \in opens : \A y \in opens : x <= y
                j == CHOOSE x \in closes : \A y \in closes : x >= y
            IN IF i # j \/ atoms[i].k # "json"
               THEN [ok |-> FALSE, v |-> Null]
               ELSE IF atoms[i].v.t = "obj"
                    THEN [ok |-> TRUE, v |-> atoms[i].v]
                    ELSE LET objs == {n \in 1..Len(atoms[i].v.v) :
                                        atoms[i].v.v[n].t = "obj"}
                         IN IF Cardinality(objs) = 1   \* [ ..., {...}, ... ]
                            THEN [ok |-> TRUE,
                                  v |-> atoms[i].v.v[CHOOSE n \in objs : TRUE]]
                            ELSE [ok |-> FALSE, v |-> Null]

extract_json_NoFences(text) ==
    LET atoms == TextAtoms(text)
        whole == JsonLoads(atoms)
        rx == RegexObject(atoms)
    IN IF whole.ok THEN whole.v ELSE IF rx.ok THEN rx.v ELSE Null

extract_json(text) ==
    LET atoms == TextAtoms(text)
        whole == JsonLoads(atoms)
        block == IF HasKind(atoms, {"fencejson"})
                 THEN JsonLoads(FencedBlock(atoms, {"fencejson"}))
                 ELSE IF HasKind(atoms, {"fence"})
                      THEN JsonLoads(FencedBlock(atoms, {"fence"}))
                      ELSE [ok |-> FALSE, v |-> Null]
        rx == RegexObject(atoms)
    IN IF whole.ok THEN whole.v
       ELSE IF block.ok THEN block.v
       ELSE IF rx.ok THEN rx.v
       ELSE Null     \* None

\* Python truthiness of a parsed value (`if not tool_call_data`)
Truthy(v) ==
    CASE v.t = "obj"  -> DOMAIN v.v # {}
      [] v.t = "list" -> Len(v.v) > 0
      [] v.t = "num"  -> v.v # 0
      [] v.t = "str"  -> v.v # ""
      [] OTHER        -> FALSE

\* dict.get(key, default)
Get(d, key, default) == IF key \in DOMAIN d THEN d[key] ELSE default

(***************************************************************************)
(* Database session and the tasks table: models.py, database.py            *)
(***************************************************************************)
Users == {"alice", "bob"}

\* Task(title=..., description=..., priority=..., tags=..., user_id=...)
NewTask(title, description, priority, tags, user_id) ==
    [user_id |-> user_id, title |-> title, description |-> description,
     completed |-> FALSE, priority |-> priority, tags |-> tags,
     committed |-> FALSE]

Max(S) == CHOOSE x \in S : \A y \in S : x >= y

Min(S) == CHOOSE x \in S : \A y \in S : x <= y

\* SQLite INTEGER PRIMARY KEY: one more than the largest id in the table
NewId(rows) == IF DOMAIN rows = {} THEN 1 ELSE Max(DOMAIN rows) + 1

RECURSIVE FlushRows(_, _)
FlushRows(rows, pend) ==
    IF pend = <<>> THEN rows
    ELSE FlushRows(rows @@ (NewId(rows) :> Head(pend)), Tail(pend))

\* session.flush(): INSERT the pending objects (also run before every query)
Flush(db) == [tasks |-> FlushRows(db.tasks, db.pending), pending |-> <<>>]

\* session.commit()
Commit(db) ==
    LET f == Flush(db) IN
    [tasks |-> [i \in DOMAIN f.tasks |-> [f.tasks[i] EXCEPT !.committed = TRUE]],
     pending |-> <<>>]

\* rollback, and the close of the request's session: what was never
\* committed is gone
Rollback(db) ==
    [tasks |-> [i \in {j \in DOMAIN db.tasks : db.tasks[j].committed} |-> db.tasks[i]],
     pending |-> <<>>]

SessionAdd(db, task) == [db EXCEPT !.pending = Append(@, task)]

SessionDelete(db, ids) ==
    [db EXCEPT !.tasks = [i \in DOMAIN db.tasks \ ids |-> db.tasks[i]]]

\* ascending sequence of the ids in S
RECURSIVE SortedIds(_)
SortedIds(S) == IF S = {} THEN <<>> ELSE <<Min(S)>> \o SortedIds(S \ {Min(S)})

\* task.model_dump()
Dump(rows, id) ==
    [id |-> id, user_id |-> rows[id].user_id, title |-> rows[id].title,
     description |-> rows[id].description, completed |-> rows[id].completed,
     priority |-> rows[id].priority, tags |-> rows[id].tags]

Range(q) == {q[i] : i \in 1..Len(q)}

(***************************************************************************)
(* Console application: src/console/src/models.py, task_manager.py         *)
(* A string is a run of spaces, a core that neither starts nor ends with a *)
(* space (named by `core`, `n` characters long) and another run of spaces. *)
(***************************************************************************)
CStr(lead, core, n, trail) == [lead |-> lead, core |-> core, n |-> n, trail |-> trail]

EmptyStr == CStr(0, "", 0, 0)

\* Python's None where a string is optional
NoneStr == CStr(0, None, 0, 0)

\* len(s)
StrLen(s) == s.lead + s.n + s.trail

\* s.strip()
Strip(s) == IF s.n = 0 THEN EmptyStr ELSE [s EXCEPT !.lead = 0, !.trail = 0]

\* Task._validate_title: the error raised, or None
Task_validate_title(title) ==
    IF StrLen(title) = 0 \/ StrLen(Strip(title)) = 0 THEN "ValueError"
    ELSE IF StrLen(title) > 200 THEN "ValueError"
    ELSE None

\* Task._validate_description
Task_validate_description(description) ==
    IF StrLen(description) > 1000 THEN "ValueError" ELSE None

\* Task(id=..., title=..., description=...) with __post_init__
Task_new(id, title, description) ==
    LET task == [id |-> id, title |-> title, description |-> description,
                 completed |-> FALSE]
    IN IF Task_validate_title(title) # None
       THEN [raised |-> "ValueError", task |-> task]
       ELSE [raised |-> Task_validate_description(description), task |-> task]

\* Task.update: the object afterwards and the error raised, if any
Task_update(task, title, description) ==
    LET t1 == IF title # NoneStr THEN [task EXCEPT !.title = title] ELSE task
        t2 == IF description # NoneStr THEN [t1 EXCEPT !.description = description]
              ELSE t1
    IN IF title # NoneStr /\ Task_validate_title(title) # None
       THEN [raised |-> "ValueError", task |-> t1]
       ELSE IF description # NoneStr /\ Task_validate_description(description) # None
       THEN [raised |-> "ValueError", task |-> t2]
       ELSE [raised |-> None, task |-> t2]

\* a toggle_complete that only ever marks the task completed
Task_toggle_completeSetsTrue(task) ==
    [task |-> [task EXCEPT !.completed = TRUE], returned |-> TRUE]

\* Task.toggle_complete: the object afterwards and the returned status
Task_toggle_complete(task) ==
    [task |-> [task EXCEPT !.completed = ~task.completed],
     returned |-> ~task.completed]

\* `x.strip() if x else None`
StripOrNone(x) == IF x = NoneStr \/ StrLen(x) = 0 THEN NoneStr ELSE Strip(x)

Call(op, task_id, raised) == [op |-> op, task_id |-> task_id, raised |-> raised]

\* TaskManager.__init__
TaskManagerInit ==
    /\ tm_tasks = <<>>
    /\ tm_next_id = 1
    /\ tm_last = Call("__init__", 0, None)

\* the bound on the tasks ever added
MaxAdds == 2

TaskIds == 1..(MaxAdds + 1)

Titles ==
    {EmptyStr, CStr(3, "", 0, 0), CStr(1, "long title", 200, 1),
     CStr(0, "longer title", 201, 0)}

Descriptions ==
    {EmptyStr, CStr(0, "long note", 1000, 2), CStr(0, "longer note", 1001, 0)}

\* update_task(task_id, title=..., description=...): one field, or a good
\* title with each description
UpdateArgs ==
    {<<t, NoneStr>> : t \in Titles} \cup {<<NoneStr, d>> : d \in Descriptions}
        \cup {<<CStr(1, "long title", 200, 1), d>> : d \in Descriptions}

\* TaskManager.add_task
TM_add_task(title, description) ==
    /\ LET made == Task_new(tm_next_id, Strip(title), Strip(description)) IN
       /\ tm_next_id <= MaxAdds
       /\ IF made.raised # None
          THEN /\ tm_last' = Call("add_task", 0, made.raised)
               /\ UNCHANGED <<tm_tasks, tm_next_id>>
          ELSE /\ tm_tasks' = (tm_next_id :> made.task) @@ tm_tasks
               /\ tm_next_id' = tm_next_id + 1
               /\ tm_last' = Call("add_task", tm_next_id, None)
    /\ UNCHANGED server_vars

\* TaskManager.get_task
TM_get_task(task_id) ==
    /\ tm_last' = Call("get_task", task_id,
                       IF task_id \notin DOMAIN tm_tasks THEN "TaskNotFoundError"
                       ELSE None)
    /\ UNCHANGED <<tm_tasks, tm_next_id>>
    /\ UNCHANGED server_vars

\* TaskManager.update_task
TM_update_task(task_id, title, description) ==
    /\ IF task_id \notin DOMAIN tm_tasks
       THEN /\ tm_last' = Call("update_task", task_id, "TaskNotFoundError")
            /\ UNCHANGED <<tm_tasks, tm_next_id>>
       ELSE LET done == Task_update(tm_tasks[task_id], StripOrNone(title),
                                    StripOrNone(description))
            IN /\ tm_tasks' = [tm_tasks EXCEPT ![task_id] = done.task]
               /\ tm_last' = Call("update_task", task_id, done.raised)
               /\ UNCHANGED tm_next_id
    /\ UNCHANGED server_vars

\* a delete_task that hands the id back for the next add_task
TM_delete_taskReusingId(task_id) ==
    /\ IF task_id \notin DOMAIN tm_tasks
       THEN /\ tm_last' = Call("delete_task", task_id, "TaskNotFoundError")
            /\ UNCHANGED <<tm_tasks, tm_next_id>>
       ELSE /\ tm_tasks' = [i \in DOMAIN tm_tasks \ {task_id} |-> tm_tasks[i]]
            /\ tm_last' = Call("delete_task", task_id, None)
            /\ tm_next_id' = task_id
    /\ UNCHANGED server_vars

\* TaskManager.delete_task
TM_delete_task(task_id) ==
    /\ IF task_id \notin DOMAIN tm_tasks
       THEN /\ tm_last' = Call("delete_task", task_id, "TaskNotFoundError")
            /\ UNCHANGED <<tm_tasks, tm_next_id>>
       ELSE /\ tm_tasks' = [i \in DOMAIN tm_tasks \ {task_id} |-> tm_tasks[i]]
            /\ tm_last' = Call("delete_task", task_id, None)
            /\ UNCHANGED tm_next_id
    /\ UNCHANGED server_vars

\* a toggle_complete that ignores an id it does not find
TM_toggle_completeLenient(task_id) ==
    /\ IF task_id \notin DOMAIN tm_tasks
       THEN /\ tm_last' = Call("toggle_complete", task_id, None)
            /\ UNCHANGED <<tm_tasks, tm_next_id>>
       ELSE /\ tm_tasks' = [tm_tasks EXCEPT ![task_id].completed = ~@]
            /\ tm_last' = Call("toggle_complete", task_id, None)
            /\ UNCHANGED tm_next_id
    /\ UNCHANGED server_vars

\* TaskManager.toggle_complete: returns the task
TM_toggle_complete(task_id) ==
    /\ IF task_id \notin DOMAIN tm_tasks
       THEN /\ tm_last' = Call("toggle_complete", task_id, "TaskNotFoundError")
            /\ UNCHANGED <<tm_tasks, tm_next_id>>
       ELSE LET done == Task_toggle_complete(tm_tasks[task_id])
            IN /\ tm_tasks' = [tm_tasks EXCEPT ![task_id] = done.task]
               /\ tm_last' = [op |-> "toggle_complete", task_id |-> task_id,
                              raised |-> None, returned |-> done.task]
               /\ UNCHANGED tm_next_id
    /\ UNCHANGED server_vars

\* a list_tasks whose "pending" filter lets every task through
TM_list_tasksPendingAll(status_filter) ==
    LET ids == {i \in DOMAIN tm_tasks : status_filter = "completed" => tm_tasks[i].completed}
        order == SortedIds(ids)
    IN [k \in 1..Len(order) |-> tm_tasks[order[k]]]

\* TaskManager.list_tasks
TM_list_tasks(status_filter) ==
    LET ids == {i \in DOMAIN tm_tasks :
                  /\ status_filter = "completed" => tm_tasks[i].completed
                  /\ status_filter = "pending" => ~tm_tasks[i].completed}
        order == SortedIds(ids)
    IN [k \in 1..Len(order) |-> tm_tasks[order[k]]]

\* TaskManager.count, count_completed, count_pending
TM_count == Cardinality(DOMAIN tm_tasks)

TM_count_completed == Cardinality({i \in DOMAIN tm_tasks : tm_tasks[i].completed})

TM_count_pending == Cardinality({i \in DOMAIN tm_tasks : ~tm_tasks[i].completed})

\* ---------------------------------------------------------------------------
\* Authentication routes (src/backend/app/routes/auth.py).  The clock counts
\* minutes.  A token is the number of the secrets.token_urlsafe call that made
\* it, so every token is fresh; 0 is a string no call returned.
MAX_LOGIN_ATTEMPTS == 5

LOCKOUT_DURATION_MINUTES == 15

REFRESH_TOKEN_EXPIRE_DAYS == 7

Hours(n) == 60 * n

Days(n) == 24 * Hours(n)

hash_password(password) == <<"sha256_crypt", password>>

verify_password(plain_password, hashed_password) ==
    hash_password(plain_password) = hashed_password

hash_token(token) == <<"sha256", token>>

\* str.lower() on the addresses of the model
LowerEmail(email) == IF email = "Amy@x.io" THEN "amy@x.io" ELSE email

\* select(User).where(User.email == email).first(); 0 for None
UserByEmail(email) ==
    LET found == {i \in DOMAIN users : users[i].email = email}
    IN IF found = {} THEN 0 ELSE Min(found)

\* the request just answered: the route, the HTTP status, the address or the
\* token it carried, the user it concerned and the refresh token it returned
Reply(op, status, email, token, user_id, returned) ==
    [op |-> op, status |-> status, email |-> email, token |-> token,
     user_id |-> user_id, returned |-> returned]

\* one more value from secrets.token_urlsafe, for user_id
Mint(kind, user_id) == Append(minted, [kind |-> kind, user_id |-> user_id, at |-> now])

\* what clients have seen happen to a token; a password reset is kept with
\* the number of tokens made before it
Seen(what, token, user_id) ==
    auth_seen \cup {[what |-> what, token |-> token, user_id |-> user_id,
                     mark |-> IF what = "reset" THEN Len(minted) ELSE 0]}

\* the addresses after lower()
Addresses == {"amy@x.io", "bo@x.io"}

\* the last n elements of seq
LastN(seq, n) == IF Len(seq) <= n THEN seq ELSE SubSeq(seq, Len(seq) - n + 1, Len(seq))

\* one more 401 answer of login for email, now; the latest
\* MAX_LOGIN_ATTEMPTS are kept
Failed(email) ==
    [failed_at EXCEPT ![email] = LastN(Append(@, now), MAX_LOGIN_ATTEMPTS)]

AuthIdle ==
    /\ now = 0
    /\ ticks = 0
    /\ users = <<>>
    /\ refresh_tokens = {}
    /\ reset_tokens = {}
    /\ verification_tokens = {}
    /\ login_attempts = <<>>
    /\ minted = <<>>
    /\ auth_seen = {}
    /\ failed_at = [e \in Addresses |-> <<>>]
    /\ auth_last = Reply("none", 0, None, 0, 0, 0)

\* login_attempts without the entry of email
Forget(attempts, email) == [e \in DOMAIN attempts \ {email} |-> attempts[e]]

\* a check that locks out only after more than MAX_LOGIN_ATTEMPTS failures
check_rate_limitOneMore(email, attempts, utcnow) ==
    IF email \notin DOMAIN attempts
    THEN [login_attempts |-> attempts, status_code |-> 0]
    ELSE LET lockout_expires == attempts[email].last_attempt + LOCKOUT_DURATION_MINUTES
         IN IF utcnow > lockout_expires
            THEN [login_attempts |-> Forget(attempts, email), status_code |-> 0]
            ELSE IF attempts[email].count > MAX_LOGIN_ATTEMPTS
            THEN [login_attempts |-> attempts, status_code |-> 429]
            ELSE [login_attempts |-> attempts, status_code |-> 0]

\* check_rate_limit: the dict afterwards and the status raised (0: none)
check_rate_limit(email, attempts, utcnow) ==
    IF email \notin DOMAIN attempts
    THEN [login_attempts |-> attempts, status_code |-> 0]
    ELSE LET lockout_expires == attempts[email].last_attempt + LOCKOUT_DURATION_MINUTES
         IN IF utcnow > lockout_expires
            THEN [login_attempts |-> Forget(attempts, email), status_code |-> 0]
            ELSE IF attempts[email].count >= MAX_LOGIN_ATTEMPTS
            THEN [login_attempts |-> attempts, status_code |-> 429]
            ELSE [login_attempts |-> attempts, status_code |-> 0]

record_login_attempt(email, success, attempts, utcnow) ==
    IF success
    THEN Forget(attempts, email)
    ELSE LET count == IF email \in DOMAIN attempts THEN attempts[email].count ELSE 0
         IN [e \in DOMAIN attempts \cup {email} |->
               IF e = email THEN [count |-> count + 1, last_attempt |-> utcnow]
               ELSE attempts[e]]

\* a registration that creates the account already verified
NewUserVerified(email, password) ==
    [email |-> email, hashed_password |-> hash_password(password),
     is_active |-> TRUE, is_verified |-> TRUE]

\* User(email=..., hashed_password=..., is_verified=False)
NewUser(email, password) ==
    [email |-> email, hashed_password |-> hash_password(password),
     is_active |-> TRUE, is_verified |-> FALSE]

\* RefreshToken(user_id=..., token_hash=..., expires_at=utcnow + 7 days)
NewRefreshToken(user_id, token) ==
    [user_id |-> user_id, token_hash |-> hash_token(token),
     expires_at |-> now + Days(REFRESH_TOKEN_EXPIRE_DAYS), is_revoked |-> FALSE]

\* a lookup that also finds revoked refresh tokens
ValidRefreshTokenAnyState(token) ==
    {r \in refresh_tokens : r.token_hash = hash_token(token)}

\* select(RefreshToken).where(token_hash == ..., is_revoked == False)
ValidRefreshToken(token) ==
    {r \in refresh_tokens : r.token_hash = hash_token(token) /\ ~r.is_revoked}

\* a lookup that also finds used reset tokens
UnusedResetTokenAnyState(token) ==
    {r \in reset_tokens : r.token_hash = hash_token(token)}

\* select(PasswordResetToken).where(token_hash == ..., is_used == False)
UnusedResetToken(token) ==
    {r \in reset_tokens : r.token_hash = hash_token(token) /\ ~r.is_used}

\* the rows with one of them revoked
Revoked(rows, stored) == (rows \ {stored}) \cup {[stored EXCEPT !.is_revoked = TRUE]}

\* the bound on the tokens ever made
MaxTokens == 3

\* the bound on the clock's steps
MaxTicks == 2

AuthEmails == {"amy@x.io", "Amy@x.io", "bo@x.io"}

Passwords == {"Passw0rd1", "Passw0rd2"}

\* the tokens a client can present: the ones made so far and a made-up one
Presentable == 0..Len(minted)

register(email, password) ==
    /\ Len(minted) < MaxTokens
    /\ IF UserByEmail(LowerEmail(email)) # 0
       THEN /\ auth_last' = Reply("register", 409, LowerEmail(email), 0, 0, 0)
            /\ UNCHANGED <<users, verification_tokens, minted>>
       ELSE LET id == Len(users) + 1
                verify_token == Len(minted) + 1
            IN /\ users' = Append(users, NewUser(LowerEmail(email), password))
               /\ minted' = Mint("verification", id)
               /\ verification_tokens' = verification_tokens \cup
                     {[user_id |-> id, token_hash |-> hash_token(verify_token),
                       expires_at |-> now + Hours(24)]}
               /\ auth_last' = Reply("register", 201, LowerEmail(email), 0, id, 0)
    /\ UNCHANGED <<now, ticks, refresh_tokens, reset_tokens, login_attempts,
                   auth_seen, failed_at, non_auth_vars>>

login(email, password) ==
    /\ Len(minted) < MaxTokens
    /\ LET lowered == LowerEmail(email)
           checked == check_rate_limit(lowered, login_attempts, now)
           user == UserByEmail(lowered)
       IN IF checked.status_code = 429
          THEN /\ login_attempts' = checked.login_attempts
               /\ auth_last' = Reply("login", 429, lowered, 0, 0, 0)
               /\ UNCHANGED <<refresh_tokens, minted, failed_at>>
          ELSE IF user = 0 \/ ~verify_password(password, users[user].hashed_password)
          THEN /\ login_attempts' =
                     record_login_attempt(lowered, FALSE, checked.login_attempts, now)
               /\ auth_last' = Reply("login", 401, lowered, 0, 0, 0)
               /\ failed_at' = Failed(lowered)
               /\ UNCHANGED <<refresh_tokens, minted>>
          ELSE IF ~users[user].is_active \/ ~users[user].is_verified
          THEN /\ login_attempts' = checked.login_attempts
               /\ auth_last' = Reply("login", 403, lowered, 0, user, 0)
               /\ UNCHANGED <<refresh_tokens, minted, failed_at>>
          ELSE LET refresh_token == Len(minted) + 1
               IN /\ login_attempts' =
                        record_login_attempt(lowered, TRUE, checked.login_attempts, now)
                  /\ minted' = Mint("refresh", user)
                  /\ refresh_tokens' = refresh_tokens \cup
                        {NewRefreshToken(user, refresh_token)}
                  /\ failed_at' = [failed_at EXCEPT ![lowered] = <<>>]
                  /\ auth_last' = Reply("login", 200, lowered, 0, user, refresh_token)
    /\ UNCHANGED <<now, ticks, users, reset_tokens, verification_tokens,
                   auth_seen, non_auth_vars>>

refresh_token(token) ==
    /\ Len(minted) < MaxTokens
    /\ LET found == ValidRefreshToken(token)
           stored_token == CHOOSE r \in found : TRUE
       IN IF found = {}
          THEN /\ auth_last' = Reply("refresh", 401, None, token, 0, 0)
               /\ UNCHANGED <<refresh_tokens, minted, auth_seen>>
          ELSE IF now > stored_token.expires_at
          THEN /\ refresh_tokens' = Revoked(refresh_tokens, stored_token)
               /\ auth_last' = Reply("refresh", 401, None, token, 0, 0)
               /\ UNCHANGED <<minted, auth_seen>>
          ELSE IF ~users[stored_token.user_id].is_active
          THEN /\ auth_last' = Reply("refresh", 401, None, token, 0, 0)
               /\ UNCHANGED <<refresh_tokens, minted, auth_seen>>
          ELSE LET new_refresh_token == Len(minted) + 1
               IN /\ refresh_tokens' = Revoked(refresh_tokens, stored_token) \cup
                        {NewRefreshToken(stored_token.user_id, new_refresh_token)}
                  /\ minted' = Mint("refresh", stored_token.user_id)
                  /\ auth_seen' = Seen("exchanged", token, stored_token.user_id)
                  /\ auth_last' = Reply("refresh", 200, None, token,
                                        stored_token.user_id, new_refresh_token)
    /\ UNCHANGED <<now, ticks, users, reset_tokens, verification_tokens,
                   login_attempts, failed_at, non_auth_vars>>

logout(token) ==
    /\ LET found == {r \in refresh_tokens : r.token_hash = hash_token(token)}
           stored_token == CHOOSE r \in found : TRUE
       IN /\ IF found # {} /\ ~stored_token.is_revoked
             THEN refresh_tokens' = Revoked(refresh_tokens, stored_token)
             ELSE UNCHANGED refresh_tokens
          /\ auth_seen' = IF found # {} THEN Seen("logged_out", token, 0)
                          ELSE auth_seen
    /\ auth_last' = Reply("logout", 200, None, token, 0, 0)
    /\ UNCHANGED <<now, ticks, users, reset_tokens, verification_tokens,
                   login_attempts, minted, failed_at, non_auth_vars>>

forgot_password(email) ==
    /\ Len(minted) < MaxTokens
    /\ LET user == UserByEmail(LowerEmail(email))
           reset_token == Len(minted) + 1
       IN IF user = 0
          THEN UNCHANGED <<reset_tokens, minted>>
          ELSE /\ minted' = Mint("reset", user)
               /\ reset_tokens' = reset_tokens \cup
                     {[user_id |-> user, token_hash |-> hash_token(reset_token),
                       expires_at |-> now + Hours(1), is_used |-> FALSE]}
    /\ auth_last' = Reply("forgot_password", 200, LowerEmail(email), 0, 0, 0)
    /\ UNCHANGED <<now, ticks, users, refresh_tokens, verification_tokens,
                   login_attempts, auth_seen, failed_at, non_auth_vars>>

reset_password(token, new_password) ==
    /\ LET found == UnusedResetToken(token)
           db_token == CHOOSE r \in found : TRUE
       IN IF found = {} \/ now > db_token.expires_at
          THEN /\ auth_last' = Reply("reset_password", 400, None, token, 0, 0)
               /\ UNCHANGED <<users, refresh_tokens, reset_tokens, auth_seen>>
          ELSE /\ users' = [users EXCEPT ![db_token.user_id].hashed_password =
                                             hash_password(new_password)]
               /\ reset_tokens' = (reset_tokens \ {db_token}) \cup
                                     {[db_token EXCEPT !.is_used = TRUE]}
               /\ refresh_tokens' =
                     {r \in refresh_tokens : r.user_id # db_token.user_id}
               /\ auth_seen' = Seen("reset", token, db_token.user_id)
               /\ auth_last' = Reply("reset_password", 200, None, token,
                                     db_token.user_id, 0)
    /\ UNCHANGED <<now, ticks, verification_tokens, login_attempts, minted,
                   failed_at, non_auth_vars>>

verify_email(token) ==
    /\ LET found == {r \in verification_tokens : r.token_hash = hash_token(token)}
           db_token == CHOOSE r \in found : TRUE
       IN IF found = {}
          THEN /\ auth_last' = Reply("verify_email", 400, None, token, 0, 0)
               /\ UNCHANGED <<users, verification_tokens, auth_seen>>
          ELSE IF now > db_token.expires_at
          THEN /\ verification_tokens' = verification_tokens \ {db_token}
               /\ auth_last' = Reply("verify_email", 400, None, token, 0, 0)
               /\ UNCHANGED <<users, auth_seen>>
          ELSE /\ users' = [users EXCEPT ![db_token.user_id].is_verified = TRUE]
               /\ verification_tokens' = verification_tokens \ {db_token}
               /\ auth_seen' = Seen("verified", token, db_token.user_id)
               /\ auth_last' = Reply("verify_email", 200, None, token,
                                     db_token.user_id, 0)
    /\ UNCHANGED <<now, ticks, refresh_tokens, reset_tokens, login_attempts,
                   minted, failed_at, non_auth_vars>>

resend_verification(email) ==
    /\ Len(minted) < MaxTokens
    /\ LET user == UserByEmail(LowerEmail(email))
           verify_token == Len(minted) + 1
       IN IF user = 0 \/ users[user].is_verified
          THEN UNCHANGED <<verification_tokens, minted>>
          ELSE /\ minted' = Mint("verification", user)
               /\ verification_tokens' = verification_tokens \cup
                     {[user_id |-> user, token_hash |-> hash_token(verify_token),
                       expires_at |-> now + Hours(24)]}
    /\ auth_last' = Reply("resend_verification", 200, LowerEmail(email), 0, 0, 0)
    /\ UNCHANGED <<now, ticks, users, refresh_tokens, reset_tokens,
                   login_attempts, auth_seen, failed_at, non_auth_vars>>

\* time passes between two requests
Tick(jumps) ==
    /\ ticks < MaxTicks
    /\ \E d \in jumps : now' = now + d
    /\ ticks' = ticks + 1
    /\ UNCHANGED <<users, refresh_tokens, reset_tokens, verification_tokens,
                   login_attempts, minted, auth_seen, auth_last, failed_at, non_auth_vars>>

(***************************************************************************)
(* Tool executor: mcp_server.py, handle_tool_call                          *)
(* Every branch yields [db, result, raised, nested]: the session after it, *)
(* the returned result, whether it raised, and the gateway calls it made.  *)
(***************************************************************************)
Outcome(db, result) == [db |-> db, result |-> result, raised |-> FALSE, nested |-> 0]

Raise(db, error) ==
    [db |-> db, result |-> [status |-> "raised", message |-> error],
     raised |-> TRUE, nested |-> 0]

ErrorResult(message) == [status |-> "error", message |-> message]

AddTask(arguments, user_id, db) ==
    LET title == Get(arguments, "title", None)
        desc == Get(arguments, "description", "")
        priority == Get(arguments, "priority", "medium")
        tags == Get(arguments, "tags", <<>>)
        d == Commit(SessionAdd(db, NewTask(title, desc, priority, tags, user_id)))
    IN IF title = None
       THEN Raise(Rollback(db), "IntegrityError")   \* tasks.title is NOT NULL
       ELSE Outcome(d, [status |-> "success", message |-> "Task created",
                        task |-> Dump(d.tasks, Max(DOMAIN d.tasks))])

\* list_tasks that returns the user's first task only
ListTasksFirstOnly(arguments, user_id, db) ==
    LET d == Flush(db)
        ids == {i \in DOMAIN d.tasks : d.tasks[i].user_id = user_id}
    IN IF ids = {}
       THEN Outcome(d, [status |-> "success", message |-> "No tasks found.",
                        tasks |-> <<>>])
       ELSE Outcome(d, [status |-> "success", message |-> "Found tasks",
                        tasks |-> <<Dump(d.tasks, Min(ids))>>])

ListTasks(arguments, user_id, db) ==
    LET status == Get(arguments, "status", "all")
        limit == Get(arguments, "limit", 20)
        d == Flush(db)
        ids == {i \in DOMAIN d.tasks :
                  /\ d.tasks[i].user_id = user_id
                  /\ status = "pending" => ~d.tasks[i].completed
                  /\ status = "completed" => d.tasks[i].completed}
        all == SortedIds(ids)
        found == IF Len(all) > limit THEN SubSeq(all, 1, limit) ELSE all
    IN IF found = <<>>
       THEN Outcome(d, [status |-> "success", message |-> "No tasks found.",
                        tasks |-> <<>>])
       ELSE Outcome(d, [status |-> "success", message |-> "Found tasks",
                        tasks |-> [i \in 1..Len(found) |-> Dump(d.tasks, found[i])]])

CompleteTaskNoOwnerCheck(arguments, user_id, db) ==
    LET task_id == Get(arguments, "task_id", 0)
        completed == Get(arguments, "completed", TRUE)
        d == Flush(db)
    IN IF task_id \notin DOMAIN d.tasks
       THEN Outcome(d, ErrorResult("Task with ID not found."))
       ELSE Outcome(Commit([d EXCEPT !.tasks[task_id].completed = completed]),
                    [status |-> "success",
                     message |-> IF completed THEN "Task completed"
                                 ELSE "Task marked as pending",
                     title |-> d.tasks[task_id].title])

CompleteTask(arguments, user_id, db) ==
    LET task_id == Get(arguments, "task_id", 0)    \* 0 stands for None
        completed == Get(arguments, "completed", TRUE)
        d == Flush(db)
    IN IF task_id \notin DOMAIN d.tasks \/ d.tasks[task_id].user_id # user_id
       THEN Outcome(d, ErrorResult("Task with ID not found."))
       ELSE Outcome(Commit([d EXCEPT !.tasks[task_id].completed = completed]),
                    [status |-> "success",
                     message |-> IF completed THEN "Task completed"
                                 ELSE "Task marked as pending",
                     title |-> d.tasks[task_id].title])

BulkCompleteTasks(arguments, user_id, db) ==
    LET task_ids == Get(arguments, "task_ids", <<>>)
        completed == Get(arguments, "completed", TRUE)
        d == Flush(db)
        ids == {i \in DOMAIN d.tasks :
                  i \in Range(task_ids) /\ d.tasks[i].user_id = user_id}
    IN IF task_ids = <<>>
       THEN Outcome(db, ErrorResult("No task IDs provided."))
       ELSE IF ids = {}
       THEN Outcome(d, ErrorResult("No valid tasks found."))
       ELSE Outcome(Commit([d EXCEPT !.tasks =
                              [i \in DOMAIN d.tasks |->
                                 IF i \in ids
                                 THEN [d.tasks[i] EXCEPT !.completed = completed]
                                 ELSE d.tasks[i]]]),
                    [status |-> "success",
                     message |-> IF completed THEN "tasks completed"
                                 ELSE "tasks marked as pending",
                     count |-> Cardinality(ids)])

\* Task.title.ilike(f"%{title_match}%")
\* SQL LIKE: in the pattern "%" stands for any run of characters and "_"
\* for any one character
RECURSIVE Like(_, _)
Like(s, pattern) ==
    IF pattern = <<>> THEN s = <<>>
    ELSE IF Head(pattern) = "%"
    THEN Like(s, Tail(pattern)) \/ (s # <<>> /\ Like(Tail(s), pattern))
    ELSE /\ s # <<>>
         /\ Head(pattern) = "_" \/ Head(pattern) = Head(s)
         /\ Like(Tail(s), Tail(pattern))

ILikeCaseSensitive(title, title_match) ==
    Like(Chars(title), <<"%">> \o Chars(title_match) \o <<"%">>)

\* Task.title.ilike(f"%{title_match}%")
ILike(title, title_match) ==
    Like(LowerStr(Chars(title)), <<"%">> \o LowerStr(Chars(title_match)) \o <<"%">>)

DeleteTask(arguments, user_id, db) ==
    LET task_id == Get(arguments, "task_id", 0)
        title_match == Get(arguments, "title", "")
        d == Flush(db)
        matches == {i \in DOMAIN d.tasks :
                      d.tasks[i].user_id = user_id /\ ILike(d.tasks[i].title, title_match)}
        \* 0 stands for no task
        task == IF task_id # 0
                THEN IF task_id \in DOMAIN d.tasks /\ d.tasks[task_id].user_id = user_id
                     THEN task_id ELSE 0
                ELSE IF matches = {} THEN 0 ELSE Min(matches)   \* .first()
    IN IF task_id = 0 /\ title_match = ""
       THEN Outcome(db, ErrorResult("Please provide either task_id or title to delete."))
       ELSE IF task = 0
       THEN Outcome(d, ErrorResult("Task not found."))
       ELSE Outcome(Commit(SessionDelete(d, {task})),
                    [status |-> "success", message |-> "Task deleted",
                     title |-> d.tasks[task].title])

BulkDeleteTasksCountsRequested(arguments, user_id, db) ==
    LET task_ids == Get(arguments, "task_ids", <<>>)
        d == Flush(db)
        ids == {i \in DOMAIN d.tasks :
                  i \in Range(task_ids) /\ d.tasks[i].user_id = user_id}
    IN IF task_ids = <<>>
       THEN Outcome(db, ErrorResult("No task IDs provided."))
       ELSE IF ids = {}
       THEN Outcome(d, ErrorResult("No valid tasks found to delete."))
       ELSE Outcome(Commit(SessionDelete(d, ids)),
                    [status |-> "success", message |-> "Deleted tasks",
                     count |-> Len(task_ids)])

BulkDeleteTasks(arguments, user_id, db) ==
    LET task_ids == Get(arguments, "task_ids", <<>>)
        d == Flush(db)
        ids == {i \in DOMAIN d.tasks :
                  i \in Range(task_ids) /\ d.tasks[i].user_id = user_id}
    IN IF task_ids = <<>>
       THEN Outcome(db, ErrorResult("No task IDs provided."))
       ELSE IF ids = {}
       THEN Outcome(d, ErrorResult("No valid tasks found to delete."))
       ELSE Outcome(Commit(SessionDelete(d, ids)),
                    [status |-> "success", message |-> "Deleted tasks",
                     count |-> Cardinality(ids)])

UpdateTask(arguments, user_id, db) ==
    LET task_id == Get(arguments, "task_id", 0)
        d == Flush(db)
    IN IF task_id \notin DOMAIN d.tasks \/ d.tasks[task_id].user_id # user_id
       THEN Outcome(d, ErrorResult("Task with ID not found."))
       ELSE LET old == d.tasks[task_id]
                new == [old EXCEPT
                          !.title = Get(arguments, "title", old.title),
                          !.description = Get(arguments, "description", old.description),
                          !.priority = Get(arguments, "priority", old.priority)]
                c == Commit([d EXCEPT !.tasks[task_id] = new])
            IN Outcome(c, [status |-> "success", message |-> "Task updated",
                           id |-> task_id, title |-> new.title,
                           priority |-> new.priority])

\* what the geocoding and forecast services can do
WeatherOutcomes == {"ok", "not_found", "failed"}

GetWeather(arguments, weather, db) ==
    LET city == Get(arguments, "city", "")
    IN IF city = ""
       THEN Outcome(db, ErrorResult("City name is required."))
       ELSE IF weather = "not_found"
       THEN Outcome(db, ErrorResult("City not found."))
       ELSE IF weather = "failed"
       THEN Outcome(db, ErrorResult("Failed to fetch weather"))
       ELSE Outcome(db, [status |-> "success", message |-> "Current weather",
                         city |-> city])

(***************************************************************************)
(* Agent skills: skills.py                                                 *)
(***************************************************************************)
\* texts with a character in the Urdu block
UrduTexts == {"salam (urdu script)"}

\* LangDetectorSkill.execute
DetectLanguage(text) == IF text \in UrduTexts THEN "ur" ELSE "en"

\* PrioritySuggesterSkill.execute, on the texts the model passes
SuggestPriority(text) ==
    CASE text \in {"urgent", "asap", "today"} -> "high"
      [] text \in {"tomorrow", "soon"}        -> "medium"
      [] text \in {"someday", "maybe"}        -> "low"
      [] OTHER                                -> "medium"

\* ReminderSchedulerSkill.execute: days from now, 0 for None
ScheduleReminder(text) ==
    CASE text = "tomorrow"  -> 1
      [] text = "next week" -> 7
      [] OTHER              -> 0

\* DeploymentBlueprintSkill.execute
DeploymentBlueprint(type) ==
    CASE type = "minimal" -> "minimal-pod"
      [] type = "scale"   -> "kubectl scale"
      [] OTHER            -> "Available blueprints"

\* the fence stripping of DayPlannerSkill.execute, then json.loads
PlanParse(text) ==
    LET atoms == TextAtoms(text)
    IN IF HasKind(atoms, {"fencejson"})
       THEN JsonLoads(FencedBlock(atoms, {"fencejson"}))
       ELSE IF HasKind(atoms, {"fence"})
            THEN JsonLoads(FencedBlock(atoms, {"fence"}))
            ELSE JsonLoads(atoms)

\* `for task_data in tasks_data`: [db, ok, count]; ok is FALSE when an
\* element has no .get (AttributeError), the earlier ones staying staged
RECURSIVE StageTasks(_, _, _, _)
StageTasks(db, elems, user_id, count) ==
    IF elems = <<>> THEN [db |-> db, ok |-> TRUE, count |-> count]
    ELSE IF Head(elems).t # "obj"
    THEN [db |-> db, ok |-> FALSE, count |-> count]
    ELSE LET e == Head(elems).v
             task == NewTask(Get(e, "title", "Untitled"), Get(e, "description", ""),
                             Get(e, "priority", "medium"), Get(e, "tags", <<>>),
                             user_id)
         IN StageTasks(SessionAdd(db, task), Tail(elems), user_id, count + 1)

\* DayPlannerSkill.execute; `reply` is what its own gateway call returned
PlanDay(arguments, user_id, db, reply) ==
    LET parsed == PlanParse(reply)
        staged == StageTasks(db, parsed.v.v, user_id, 0)
        plan(d, message, n) ==
            [db |-> d, raised |-> FALSE, nested |-> 1,
             result |-> [status |-> "success", message |-> message, created |-> n]]
    IN IF ~parsed.ok
       THEN plan(db, "Failed to generate plan", 0)
       ELSE IF parsed.v.t # "list"
       THEN plan(db, "Error: AI returned, expected list.", 0)
       ELSE IF ~staged.ok
       THEN plan(staged.db, "Failed to generate plan", 0)
       ELSE IF staged.count = 0
       THEN plan(Commit(staged.db), "No tasks identified in your request.", 0)
       ELSE plan(Commit(staged.db), "I've created tasks for you", staged.count)

\* a catalog that also lists a tool the executor has no branch for
CatalogWithSendEmail ==
    <<"add_task", "list_tasks", "complete_task", "bulk_complete_tasks",
      "delete_task", "bulk_delete_tasks", "update_task", "get_weather",
      "plan_day", "detect_language", "suggest_priority", "schedule_reminder",
      "get_deployment_blueprint", "send_email">>

\* the tools of list_tools()
Catalog ==
    <<"add_task", "list_tasks", "complete_task", "bulk_complete_tasks",
      "delete_task", "bulk_delete_tasks", "update_task", "get_weather",
      "plan_day", "detect_language", "suggest_priority", "schedule_reminder",
      "get_deployment_blueprint">>

\* inputSchema["required"] of each tool of list_tools()
Required(name) ==
    CASE name = "add_task"                               -> {"title"}
      [] name \in {"complete_task", "update_task"}       -> {"task_id"}
      [] name \in {"bulk_complete_tasks", "bulk_delete_tasks"} -> {"task_ids"}
      [] name = "get_weather"                            -> {"city"}
      [] name = "plan_day"                               -> {"request"}
      [] name \in {"detect_language", "suggest_priority", "schedule_reminder"}
                                                         -> {"text"}
      [] name = "get_deployment_blueprint"               -> {"type"}
      [] OTHER                                           -> {}

\* raise ValueError(f"Tool not found: {name}")
UnknownToolAsError(name, db) == Outcome(db, ErrorResult("Tool not found"))

UnknownTool(name, db) == Raise(db, "Tool not found")

\* handle_tool_call(name, arguments, user_id, session); env holds what the
\* outside world answers during the call
HandleToolCall(name, arguments, user_id, db, env) ==
    CASE name = "add_task"            -> AddTask(arguments, user_id, db)
      [] name = "list_tasks"          -> ListTasks(arguments, user_id, db)
      [] name = "complete_task"       -> CompleteTask(arguments, user_id, db)
      [] name = "bulk_complete_tasks" -> BulkCompleteTasks(arguments, user_id, db)
      [] name = "delete_task"         -> DeleteTask(arguments, user_id, db)
      [] name = "bulk_delete_tasks"   -> BulkDeleteTasks(arguments, user_id, db)
      [] name = "update_task"         -> UpdateTask(arguments, user_id, db)
      [] name = "get_weather"         -> GetWeather(arguments, env.weather, db)
      [] name = "detect_language" ->
           Outcome(db, [status |-> "success",
                        language |-> DetectLanguage(Get(arguments, "text", ""))])
      [] name = "suggest_priority" ->
           Outcome(db, [status |-> "success",
                        priority |-> SuggestPriority(Get(arguments, "text", ""))])
      [] name = "schedule_reminder" ->
           Outcome(db, [status |-> "success",
                        reminder_date |-> ScheduleReminder(Get(arguments, "text", ""))])
      [] name = "get_deployment_blueprint" ->
           Outcome(db, [status |-> "success",
                        blueprint |-> DeploymentBlueprint(Get(arguments, "type", "minimal"))])
      [] name = "plan_day"            -> PlanDay(arguments, user_id, db, env.plan)
      [] OTHER                        -> UnknownTool(name, db)

(***************************************************************************)
(* Conversation loop: routes/chat.py, chat_endpoint                        *)
(***************************************************************************)
MAX_TURNS == 10

CannedText == Text("canned_done", 0)

ApologyText == Text("apology", 0)

UserText == Text("user_message", 0)

\* the return statements of chat_endpoint
FinalEnvelopeAlwaysPerformed(text, performed, tool, model) ==
    [response |-> text, action_performed |-> TRUE, tool |-> tool,
     model |-> model]

FinalEnvelopeNoTool(text, performed, tool, model) ==
    [response |-> text, action_performed |-> performed, tool |-> None,
     model |-> model]

FinalEnvelope(text, performed, tool, model) ==
    [response |-> text, action_performed |-> performed, tool |-> tool,
     model |-> model]

CeilingEnvelopeAsError(tool, model) ==
    [response |-> ApologyText, action_performed |-> FALSE, tool |-> tool,
     model |-> model]

CeilingEnvelope(tool, model) ==
    [response |-> CannedText, action_performed |-> TRUE, tool |-> tool,
     model |-> model]

ErrorEnvelope == [response |-> ApologyText]

\* a ChatMessage whose role is always "user"
ChatMessageAsUser(user_id, role, content) ==
    [user_id |-> user_id, role |-> "user", content |-> content]

\* ChatMessage(user_id=..., role=..., content=...)
ChatMessage(user_id, role, content) ==
    [user_id |-> user_id, role |-> role, content |-> content]

SystemInstruction(user_id, language) ==
    [role |-> "system",
     content |-> [prompt |-> "SYSTEM_PROMPT_TEMPLATE", tool_definitions |-> Catalog,
                  user_id |-> user_id, language |-> language]]

\* a message whose role is always "user"
MessageAsUser(role, text) == [role |-> "user", content |-> [text |-> text]]

Message(role, text) == [role |-> role, content |-> [text |-> text]]

\* f"Tool Output: {json.dumps(tool_result, default=str)}"
ToolOutputMessageStatusOnly(result) ==
    [role |-> "user", content |-> [tool_output |-> [status |-> result.status]]]

ToolOutputMessage(result) == [role |-> "user", content |-> [tool_output |-> result]]

\* provider identifiers the loop is run against
ChatProviderIds == {OpenRouterId(OPENROUTER_MODELS[1]), GeminiId}

\* what dual_provider_chat can hand the loop, for replies drawn from texts
GatewayReturns(texts) ==
    {[text |-> t, model |-> id] : t \in texts, id \in ChatProviderIds}
        \cup {FallbackReturn(None)}

TheDb == [tasks |-> tasks, pending |-> pending]

\* what the outside world can answer while tool `name` runs; plans are the
\* texts the day planner's own gateway call can return
EnvsFor(name, plans) ==
    CASE name = "get_weather" ->
           {[weather |-> w, plan |-> NoText] : w \in WeatherOutcomes}
      [] name = "plan_day" ->
           {[weather |-> "ok", plan |-> t] : t \in plans}
      [] OTHER -> {[weather |-> "ok", plan |-> NoText]}

\* the request's session is closed when chat_endpoint has returned
SetDb(db) == tasks' = db.tasks /\ pending' = db.pending

\* `while turn_count < MAX_TURNS`
LoopContinuesInclusive(turn) == turn <= MAX_TURNS

LoopContinues(turn) == turn < MAX_TURNS

\* lines 108-134: save the user message, build the message list
ChatStart ==
    /\ pc = "start"
    /\ history' = Append(history, ChatMessage(current_user, "user", UserText))
    /\ SetDb(Commit(TheDb))
    /\ messages' = <<SystemInstruction(current_user, "en"), Message("user", UserText)>>
    /\ turn_count' = 0
    /\ action_performed' = FALSE
    /\ last_tool_name' = None
    /\ used_model' = <<>>
    /\ pc' = "await_model"
    /\ UNCHANGED <<current_user, ai_message, tool_result, plan_reply, response,
                   gateway_calls, nested_calls, tools_run, gw_vars, reqs, tm_tasks, tm_next_id, tm_last, auth_vars>>

\* one loop iteration whose reply holds no tool call: lines 137-159
\* a final-answer branch that builds the envelope but stays in the loop
TurnFinalNoReturn(replies) ==
    /\ pc = "await_model"
    /\ LoopContinues(turn_count)
    /\ \E r \in replies :
         /\ ~Truthy(extract_json(r.text))
         /\ turn_count' = turn_count + 1
         /\ gateway_calls' = gateway_calls + 1
         /\ ai_message' = r.text
         /\ used_model' = r.model
         /\ history' = Append(history, ChatMessage(current_user, "assistant", r.text))
         /\ SetDb(Rollback(Commit(TheDb)))
         /\ response' = FinalEnvelope(r.text, action_performed, last_tool_name, r.model)
         /\ pc' = "await_model"
    /\ UNCHANGED <<current_user, messages, action_performed, last_tool_name,
                   tool_result, plan_reply, nested_calls, tools_run, gw_vars, reqs, tm_tasks, tm_next_id, tm_last, auth_vars>>

TurnFinal(replies) ==
    /\ pc = "await_model"
    /\ LoopContinues(turn_count)
    /\ \E r \in replies :
         /\ ~Truthy(extract_json(r.text))
         /\ turn_count' = turn_count + 1
         /\ gateway_calls' = gateway_calls + 1
         /\ ai_message' = r.text
         /\ used_model' = r.model
         /\ history' = Append(history, ChatMessage(current_user, "assistant", r.text))
         /\ SetDb(Rollback(Commit(TheDb)))
         /\ response' = FinalEnvelope(r.text, action_performed, last_tool_name, r.model)
         /\ pc' = "done"
    /\ UNCHANGED <<current_user, messages, action_performed, last_tool_name,
                   tool_result, plan_reply, nested_calls, tools_run, gw_vars, reqs, tm_tasks, tm_next_id, tm_last, auth_vars>>

\* one loop iteration that executes a tool: lines 137-145, 161-183
TurnTool(replies, plans, max_tools) ==
    /\ pc = "await_model"
    /\ LoopContinues(turn_count)
    /\ tools_run < max_tools
    /\ \E r \in replies :
         LET data == extract_json(r.text)
             tool_name == Get(data.v, "tool", None)
             tool_args == Get(data.v, "arguments", NoArgs)
         IN /\ Truthy(data) /\ data.t = "obj"
            /\ \E env \in EnvsFor(tool_name, plans) :
                 LET out == HandleToolCall(tool_name, tool_args, current_user,
                                           TheDb, env)
                 IN /\ ~out.raised
                    /\ turn_count' = turn_count + 1
                    /\ gateway_calls' = gateway_calls + 1
                    /\ nested_calls' = nested_calls + out.nested
                    /\ tools_run' = tools_run + 1
                    /\ ai_message' = r.text
                    /\ used_model' = r.model
                    /\ tool_result' = out.result
                    /\ plan_reply' = IF out.nested > 0 THEN env.plan ELSE plan_reply
                    /\ action_performed' = TRUE
                    /\ last_tool_name' = tool_name
                    /\ messages' = messages \o <<Message("assistant", r.text),
                                                ToolOutputMessage(out.result)>>
                    /\ IF LoopContinues(turn_count + 1)
                       THEN /\ pc' = "await_model"
                            /\ SetDb(out.db)
                            /\ UNCHANGED response
                       ELSE /\ pc' = "done"
                            /\ SetDb(Rollback(out.db))
                            /\ response' = CeilingEnvelope(tool_name, r.model)
    /\ UNCHANGED <<current_user, history, gw_vars, reqs, tm_tasks, tm_next_id, tm_last, auth_vars>>

\* the except clauses of chat_endpoint: where the request goes and what
\* the caller receives when `error` was raised inside the try block
CaughtPropagates(error) == [pc |-> "raised", response |-> <<>>]

Caught(error) ==
    IF error = "HTTPException"
    THEN [pc |-> "raised", response |-> <<>>]          \* re-raised as-is
    ELSE [pc |-> "done", response |-> ErrorEnvelope]

\* one loop iteration that raises: lines 137-145, 162-168, 187-190
TurnException(replies, plans, max_tools) ==
    /\ pc = "await_model"
    /\ LoopContinues(turn_count)
    /\ tools_run < max_tools
    /\ \E r \in replies :
         LET data == extract_json(r.text) IN
         /\ Truthy(data)
         /\ \/ /\ data.t # "obj"        \* .get on a list, number or string
               /\ SetDb(Rollback(TheDb))
               /\ response' = Caught("AttributeError").response
               /\ pc' = Caught("AttributeError").pc
               /\ UNCHANGED <<tool_result, tools_run>>
            \/ /\ data.t = "obj"
               /\ LET tool_name == Get(data.v, "tool", None)
                      tool_args == Get(data.v, "arguments", NoArgs)
                      out == HandleToolCall(tool_name, tool_args, current_user,
                                            TheDb, [weather |-> "ok", plan |-> NoText])
                  IN /\ out.raised
                     /\ SetDb(Rollback(out.db))
                     /\ tool_result' = out.result
                     /\ tools_run' = tools_run + 1
                     /\ response' = Caught(out.result.message).response
                     /\ pc' = Caught(out.result.message).pc
         /\ turn_count' = turn_count + 1
         /\ gateway_calls' = gateway_calls + 1
         /\ ai_message' = r.text
         /\ used_model' = r.model
    /\ UNCHANGED <<current_user, messages, action_performed, last_tool_name,
                   history, plan_reply, nested_calls, gw_vars, reqs, tm_tasks, tm_next_id, tm_last, auth_vars>>

\* the locals of chat_endpoint at its entry
ChatLocals ==
    /\ messages = <<>>
    /\ turn_count = 0
    /\ action_performed = FALSE
    /\ last_tool_name = None
    /\ used_model = <<>>
    /\ ai_message = NoText
    /\ tool_result = [status |-> None]
    /\ plan_reply = NoText
    /\ response = <<>>
    /\ history = <<>>
    /\ pending = <<>>
    /\ gateway_calls = 0
    /\ nested_calls = 0
    /\ tools_run = 0

\* chat_endpoint has been entered for current_user
ChatEntry ==
    /\ TaskManagerInit
    /\ AuthIdle
    /\ ChatLocals

ChatIdle ==
    /\ pc = "idle"
    /\ current_user = None
    /\ tasks = <<>>
    /\ ChatEntry

GwEntry ==
    /\ gw_pc = "attempt"
    /\ gw_provider = 1
    /\ gw_attempt = 0
    /\ gw_model = 0
    /\ gw_last_error = None
    /\ gw_log = <<>>
    /\ gw_result = NoResult

InitGateway ==
    /\ reqs = <<>>
    /\ gw_cfg \in [openrouter : BOOLEAN, gemini : BOOLEAN]
    /\ GwEntry
    /\ ChatIdle

NextGateway ==
    \/ CallOpenRouter
    \/ OpenRouterModel
    \/ CallGemini
    \/ BackoffSleep

SpecGateway == InitGateway /\ [][NextGateway]_vars

GwIdle ==
    /\ gw_cfg = [openrouter |-> TRUE, gemini |-> TRUE]
    /\ gw_pc = "idle"
    /\ gw_provider = 1
    /\ gw_attempt = 0
    /\ gw_model = 0
    /\ gw_last_error = None
    /\ gw_log = <<>>
    /\ gw_result = NoResult

Row(user_id, title, completed) ==
    [NewTask(title, "", "medium", <<>>, user_id) EXCEPT
        !.completed = completed, !.committed = TRUE]

\* ---- Spec: one request, the loop up to its ceiling
LoopTexts ==
    {Text("prose", 0), Text("braces", 0), Text("two_values", 5),
     Text("bare", 31), Text("bare", 32), Text("bare", 29), Text("bare", 4),
     Text("fenced_json", 5), Text("embedded", 24)}

LoopReplies == GatewayReturns(LoopTexts)

LoopPlans == {Text("bare", 34)}

LoopStore == <<Row("alice", "Buy milk", FALSE), Row("bob", "MILK run", TRUE)>>

Init ==
    /\ pc = "start"
    /\ reqs = <<>>
    /\ current_user = "alice"
    /\ tasks = LoopStore
    /\ ChatEntry
    /\ GwIdle

Next ==
    \/ ChatStart
    \/ TurnFinal(LoopReplies)
    \/ TurnTool(LoopReplies, LoopPlans, MAX_TURNS)
    \/ TurnException(LoopReplies, LoopPlans, MAX_TURNS)

Spec == Init /\ [][Next]_vars

\* ---- SpecExec: one request, tool calls over the executor's argument space
MaxToolTurns == 2

ExecTexts == {Text("bare", n) : n \in (1..30) \cup {32, 38, 41}} \cup {Text("prose", 0)}

\* the executor does not read the provider identifier
ExecReplies == {[text |-> t, model |-> GeminiId] : t \in ExecTexts}

ExecPlans ==
    {Text("bare", 33), Text("bare", 34), Text("bare", 35), Text("bare", 36),
     Text("bare", 37), Text("fenced_json", 33), DegradedText}

ExecStores ==
    { <<>>,
      <<Row("alice", "Buy milk", FALSE), Row("bob", "MILK run", FALSE),
        Row("bob", "Call mom", TRUE)>>,
      <<Row("bob", "Buy milk", FALSE), Row("alice", "Call mom", TRUE)>> }

InitExec ==
    /\ pc = "start"
    /\ reqs = <<>>
    /\ current_user \in Users
    /\ tasks \in ExecStores
    /\ ChatEntry
    /\ GwIdle

NextExec ==
    \/ ChatStart
    \/ TurnFinal(ExecReplies)
    \/ TurnTool(ExecReplies, ExecPlans, MaxToolTurns)
    \/ TurnException(ExecReplies, ExecPlans, MaxToolTurns)

SpecExec == InitExec /\ [][NextExec]_vars

\* ---- SpecInterp: one request whose replies range over the layouts the
\* interpreter tells apart
InterpToolTurns == 1

SlotForms ==
    {"bare", "fenced_json", "fenced", "embedded", "two_values",
     "fenced_then_bad_json"}

InterpValues == {1, 5, 29, 30, 31, 32, 33, 34, 36}

InterpTexts ==
    {Text(f, n) : f \in SlotForms, n \in InterpValues}
        \cup {Text("prose", 0), Text("braces", 0), Text("open_fence", 0)}

InterpReplies == {[text |-> t, model |-> GeminiId] : t \in InterpTexts}

NextInterp ==
    \/ ChatStart
    \/ TurnFinal(InterpReplies)
    \/ TurnTool(InterpReplies, LoopPlans, InterpToolTurns)
    \/ TurnException(InterpReplies, LoopPlans, InterpToolTurns)

SpecInterp == Init /\ [][NextInterp]_vars

\* ---- SpecRound: one request that adds a task and lists the tasks, for
\* users who already have up to MaxExisting tasks
RoundToolTurns == 2

MaxExisting == 20

RoundTexts ==
    {Text("bare", n) : n \in {1, 2, 3, 4, 32, 39, 40}} \cup {Text("prose", 0)}

RoundReplies == {[text |-> t, model |-> GeminiId] : t \in RoundTexts}

\* n rows of alice and one of bob
RoundStore(n) ==
    [i \in 1..(n + 1) |-> IF i = 2 THEN Row("bob", "MILK run", FALSE)
                          ELSE Row("alice", "Buy milk", i % 2 = 0)]

RoundStores == {RoundStore(n) : n \in {0, 1, MaxExisting - 1, MaxExisting}}

InitRound ==
    /\ pc = "start"
    /\ reqs = <<>>
    /\ current_user = "alice"
    /\ tasks \in RoundStores
    /\ ChatEntry
    /\ GwIdle

NextRound ==
    \/ ChatStart
    \/ TurnFinal(RoundReplies)
    \/ TurnTool(RoundReplies, LoopPlans, RoundToolTurns)
    \/ TurnException(RoundReplies, LoopPlans, RoundToolTurns)

SpecRound == InitRound /\ [][NextRound]_vars

\* ---- SpecConc: two chat_endpoint calls in progress at once. Each call
\* has its own frame of locals and its own session; a call is suspended
\* while it awaits dual_provider_chat, and the other call may run then.
ConcToolTurns == 2

Requests == {1, 2}

ConcTexts ==
    {Text("bare", 1), Text("bare", 39), Text("bare", 29), Text("bare", 32),
     Text("prose", 0)}

ConcReplies == {[text |-> t, model |-> GeminiId] : t \in ConcTexts}

\* the locals of a chat_endpoint call that has not run yet
NewFrame ==
    [pc |-> "start", messages |-> <<>>, turn_count |-> 0,
     action_performed |-> FALSE, last_tool_name |-> None, used_model |-> None,
     pending |-> <<>>, response |-> [response |-> NoText]]

\* the request (its user and message), the frame of the call that serves
\* it, and the gateway calls made for it: what was sent, what came back and
\* what the tool returned
NewRequest(user_id, message) ==
    [user_id |-> user_id, message |-> message, frame |-> NewFrame, log |-> <<>>]

\* a frame shared by all calls
LocalsOfFirstCall(rs, r) == rs[1].frame

\* the frame of call r
Locals(rs, r) == rs[r].frame

\* the variables of the single-request specifications
single_vars == <<gw_vars, pc, current_user, messages, turn_count,
                 action_performed, last_tool_name, used_model, ai_message,
                 tool_result, plan_reply, response, history, pending,
                 gateway_calls, nested_calls, tools_run, tm_tasks, tm_next_id,
                 tm_last, auth_vars>>

Sent(list) == [sent |-> list, reply |-> NoText, result |-> [status |-> None]]

\* lines 108-141: up to the first `await dual_provider_chat(messages)`
ReqStart(r) ==
    LET f == Locals(reqs, r)
        list == <<SystemInstruction(reqs[r].user_id, "en"),
                  Message("user", reqs[r].message)>>
    IN /\ f.pc = "start"
       /\ reqs' = [reqs EXCEPT
             ![r].frame = [f EXCEPT !.pc = "await_model", !.messages = list],
             ![r].log = <<Sent(list)>>]
       /\ UNCHANGED <<tasks, single_vars>>

\* the awaited reply holds no tool call: lines 141-159
ReqFinal(r, replies) ==
    LET f == Locals(reqs, r) IN
    /\ f.pc = "await_model"
    /\ \E rp \in replies :
         /\ ~Truthy(extract_json(rp.text))
         /\ reqs' = [reqs EXCEPT
               ![r].frame = [f EXCEPT
                   !.pc = "done",
                   !.turn_count = @ + 1,
                   !.used_model = rp.model,
                   !.response = FinalEnvelope(rp.text, f.action_performed,
                                              f.last_tool_name, rp.model)],
               ![r].log[Len(reqs[r].log)].reply = rp.text]
    /\ UNCHANGED <<tasks, single_vars>>

\* the awaited reply is a tool call that returns: lines 141-176 and the next
\* `await dual_provider_chat(messages)`, or the ceiling's return
ReqTool(r, replies, max_tools) ==
    LET f == Locals(reqs, r) IN
    /\ f.pc = "await_model"
    /\ Len(reqs[r].log) <= max_tools
    /\ \E rp \in replies :
         LET data == extract_json(rp.text)
             tool_name == Get(data.v, "tool", None)
             tool_args == Get(data.v, "arguments", NoArgs)
             out == HandleToolCall(tool_name, tool_args, reqs[r].user_id,
                                   [tasks |-> tasks, pending |-> f.pending],
                                   [weather |-> "ok", plan |-> NoText])
             list == f.messages \o <<Message("assistant", rp.text),
                                     ToolOutputMessage(out.result)>>
             goes_on == LoopContinues(f.turn_count + 1)
             n == Len(reqs[r].log)
         IN /\ Truthy(data) /\ data.t = "obj"
            /\ ~out.raised
            /\ reqs' = [reqs EXCEPT
                  ![r].frame = [f EXCEPT
                      !.pc = IF goes_on THEN "await_model" ELSE "done",
                      !.turn_count = @ + 1,
                      !.used_model = rp.model,
                      !.action_performed = TRUE,
                      !.last_tool_name = tool_name,
                      !.messages = list,
                      !.pending = out.db.pending,
                      !.response = IF goes_on THEN @
                                   ELSE CeilingEnvelope(tool_name, rp.model)],
                  ![r].log = IF goes_on
                             THEN Append([@ EXCEPT ![n].reply = rp.text,
                                                   ![n].result = out.result],
                                         Sent(list))
                             ELSE [@ EXCEPT ![n].reply = rp.text,
                                            ![n].result = out.result]]
            /\ tasks' = out.db.tasks
    /\ UNCHANGED single_vars

\* the awaited reply makes the turn raise: lines 141-168, 187-190
ReqException(r, replies) ==
    LET f == Locals(reqs, r) IN
    /\ f.pc = "await_model"
    /\ \E rp \in replies :
         LET data == extract_json(rp.text)
             out == HandleToolCall(Get(data.v, "tool", None),
                                   Get(data.v, "arguments", NoArgs),
                                   reqs[r].user_id,
                                   [tasks |-> tasks, pending |-> f.pending],
                                   [weather |-> "ok", plan |-> NoText])
             error == IF data.t # "obj" THEN "AttributeError" ELSE out.result.message
         IN /\ Truthy(data)
            /\ data.t = "obj" => out.raised
            /\ reqs' = [reqs EXCEPT
                  ![r].frame = [f EXCEPT
                      !.pc = Caught(error).pc,
                      !.turn_count = @ + 1,
                      !.used_model = rp.model,
                      !.pending = <<>>,
                      !.response = Caught(error).response],
                  ![r].log[Len(reqs[r].log)].reply = rp.text]
            /\ tasks' = IF data.t # "obj" THEN tasks ELSE Rollback(out.db).tasks
    /\ UNCHANGED single_vars

ConcStore == <<Row("alice", "Buy milk", FALSE)>>

InitConc ==
    /\ pc = "idle"
    /\ current_user = None
    /\ tasks = ConcStore
    /\ ChatEntry
    /\ GwIdle
    /\ \E u \in Users :
         reqs = <<NewRequest("alice", UserText),
                  NewRequest(u, Text("second_user_message", 0))>>

NextConc ==
    \E r \in Requests :
        \/ ReqStart(r)
        \/ ReqFinal(r, ConcReplies)
        \/ ReqTool(r, ConcReplies, ConcToolTurns)
        \/ ReqException(r, ConcReplies)

SpecConc == InitConc /\ [][NextConc]_vars

\* ---- SpecConsole: the console TaskManager under any sequence of calls
InitConsole ==
    /\ ChatIdle
    /\ GwIdle
    /\ reqs = <<>>

NextConsole ==
    \/ \E title \in Titles, description \in Descriptions :
           TM_add_task(title, description)
    \/ \E task_id \in TaskIds : TM_get_task(task_id)
    \/ \E task_id \in TaskIds, a \in UpdateArgs : TM_update_task(task_id, a[1], a[2])
    \/ \E task_id \in TaskIds : TM_delete_task(task_id)
    \/ \E task_id \in TaskIds : TM_toggle_complete(task_id)

SpecConsole == InitConsole /\ [][NextConsole]_vars

\* ---- the authentication routes over one seeded account
\* the account that exists beforehand, with one session, enabled or disabled
SeedUser(is_active) ==
    [email |-> "amy@x.io", hashed_password |-> hash_password("Passw0rd1"),
     is_active |-> is_active, is_verified |-> TRUE]

ServerIdle ==
    /\ pc = "idle"
    /\ current_user = None
    /\ tasks = <<>>
    /\ reqs = <<>>
    /\ TaskManagerInit
    /\ ChatLocals
    /\ GwIdle

InitAuth ==
    /\ ServerIdle
    /\ now = 0
    /\ ticks = 0
    /\ \E is_active \in BOOLEAN : users = <<SeedUser(is_active)>>
    /\ minted = <<[kind |-> "refresh", user_id |-> 1, at |-> 0]>>
    /\ refresh_tokens = {NewRefreshToken(1, 1)}
    /\ reset_tokens = {}
    /\ verification_tokens = {}
    /\ login_attempts = <<>>
    /\ auth_seen = {}
    /\ failed_at = [e \in Addresses |-> <<>>]
    /\ auth_last = Reply("none", 0, None, 0, 0, 0)

\* the address and the password of one of the accounts; failed logins are
\* the subject of SpecLogin
Credentials(email, password) ==
    /\ UserByEmail(LowerEmail(email)) # 0
    /\ verify_password(password, users[UserByEmail(LowerEmail(email))].hashed_password)

AuthJumps == {Hours(1), Days(REFRESH_TOKEN_EXPIRE_DAYS)}

\* ---- SpecSession: sessions of the seeded account and password resets
NextSession ==
    \/ \E email \in AuthEmails, password \in Passwords :
           /\ Credentials(email, password)
           /\ login(email, password)
    \/ \E token \in Presentable : refresh_token(token)
    \/ \E token \in Presentable : logout(token)
    \/ \E email \in AuthEmails : forgot_password(email)
    \/ \E token \in Presentable : reset_password(token, "Passw0rd2")
    \/ Tick(AuthJumps)

SpecSession == InitAuth /\ [][NextSession]_vars

\* ---- SpecVerify: registration, verification and the sessions that follow
NextVerify ==
    \/ \E email \in AuthEmails, password \in Passwords : register(email, password)
    \/ \E token \in Presentable : verify_email(token)
    \/ \E email \in AuthEmails : resend_verification(email)
    \/ \E email \in AuthEmails, password \in Passwords :
           /\ Credentials(email, password)
           /\ login(email, password)
    \/ \E token \in Presentable : refresh_token(token)
    \/ Tick(AuthJumps)

SpecVerify == InitAuth /\ [][NextVerify]_vars

\* ---- SpecLogin: login attempts against the clock
InitLogin ==
    /\ ServerIdle
    /\ now = 0
    /\ ticks = 0
    /\ users = <<SeedUser(TRUE)>>
    /\ minted = <<[kind |-> "refresh", user_id |-> 1, at |-> 0]>>
    /\ refresh_tokens = {NewRefreshToken(1, 1)}
    /\ reset_tokens = {}
    /\ verification_tokens = {}
    /\ login_attempts = <<>>
    /\ auth_seen = {}
    /\ failed_at = [e \in Addresses |-> <<>>]
    /\ auth_last = Reply("none", 0, None, 0, 0, 0)

LoginJumps == {1, LOCKOUT_DURATION_MINUTES}

NextLogin ==
    \/ \E email \in AuthEmails, password \in Passwords : login(email, password)
    \/ Tick(LoginJumps)

SpecLogin == InitLogin /\ [][NextLogin]_vars

(***************************************************************************)
(* Reading the gateway's trace                                             *)
(***************************************************************************)
LogIdx == 1..Len(gw_log)

IsEv(i, ev, prov) == gw_log[i].ev = ev /\ gw_log[i].provider = prov

InvokesOf(prov) == {i \in LogIdx : IsEv(i, "invoke", prov)}

RequestsOf(prov) == {i \in LogIdx : IsEv(i, "request", prov)}

SleepsOf(prov) == {i \in LogIdx : IsEv(i, "sleep", prov)}

Succeeded(i) == gw_log[i].ev = "request" /\ gw_log[i].outcome = "ok"

\* error texts that carry a rate-limit or quota token
RateSignal == {"e429", "rate", "quota"}

\* C5: when every attempt on both providers failed, dual_provider_chat
\* returns (it does not raise) the fixed degraded-service text paired with
\* the identifier 'fallback', whatever the errors were.
C5_AllFailedReturnsFallback ==
    (gw_pc = "returned" /\ \A i \in LogIdx : ~Succeeded(i))
        => /\ gw_result.model = <<"fallback">>
           /\ gw_result.text = DegradedText

C5_Witness ==
    /\ gw_pc = "returned"
    /\ gw_result.model = <<"fallback">>
    /\ \E i \in RequestsOf("OpenRouter") : gw_log[i].outcome = "timeout"
    /\ \E i \in RequestsOf("OpenRouter") : gw_log[i].outcome = "e429"
    /\ \E i \in RequestsOf("Gemini") : gw_log[i].outcome = "quota"

\* C6: if every OpenRouter model attempt raised an error containing "429",
\* OpenRouter is invoked once, each model is tried at most once, no backoff
\* sleep is taken for it, and after the last model the gateway is at Gemini.
C6_RateLimitedPrimaryNotRetried ==
    (gw_cfg.openrouter /\ \A i \in RequestsOf("OpenRouter") : gw_log[i].outcome = "e429")
        => /\ Cardinality(InvokesOf("OpenRouter")) <= 1
           /\ \A i, j \in RequestsOf("OpenRouter") :
                gw_log[i].model = gw_log[j].model => i = j
           /\ SleepsOf("OpenRouter") = {}
           /\ Cardinality(RequestsOf("OpenRouter")) = Len(OPENROUTER_MODELS)
                => providers[gw_provider] = "Gemini"

C6_Witness ==
    /\ Cardinality(RequestsOf("OpenRouter")) = Len(OPENROUTER_MODELS)
    /\ \A i \in RequestsOf("OpenRouter") : gw_log[i].outcome = "e429"
    /\ InvokesOf("Gemini") # {}

\* C7: strict priority order, first success wins.  Gemini is called only
\* after every OpenRouter attempt of the call has failed; OpenRouter models
\* are requested in list order; a successful request is the last event, and
\* the returned identifier names the provider and model that answered.
C7_PriorityOrderFirstSuccessWins ==
    /\ \A i \in LogIdx :
         gw_log[i].provider = "Gemini" =>
           /\ \A j \in LogIdx : gw_log[j].provider = "OpenRouter" => j < i
           /\ \A j \in 1..(i - 1) : ~Succeeded(j)
           /\ \E j \in 1..(i - 1) :
                /\ IsEv(j, "raised", "OpenRouter")
                /\ \/ gw_log[j].error \in RateSignal
                   \/ gw_log[j].attempt = max_retries - 1
    /\ \A i \in RequestsOf("OpenRouter") :
         /\ gw_log[i - 1].ev = "invoke" => gw_log[i].model = 1
         /\ gw_log[i - 1].ev = "request" => gw_log[i].model = gw_log[i - 1].model + 1
         /\ gw_log[i - 1].ev \in {"invoke", "request"}
    /\ \A i \in LogIdx :
         Succeeded(i) =>
           /\ i = Len(gw_log)
           /\ gw_pc = "returned"
           /\ gw_result.text \in GatewayReplies
           /\ gw_result.model =
                IF gw_log[i].provider = "OpenRouter"
                THEN CASE gw_log[i].model = 1 -> <<"openrouter", "llama-3.3-70b-instruct">>
                       [] gw_log[i].model = 2 -> <<"openrouter", "gemini-2.0-flash-001">>
                       [] gw_log[i].model = 3 -> <<"openrouter", "mistral-large-2411">>
                       [] gw_log[i].model = 4 -> <<"openrouter", "gpt-4o-mini">>
                ELSE <<"gemini", "1.5-flash">>

C7_Witness ==
    /\ gw_pc = "returned"
    /\ gw_result.model = <<"openrouter", "mistral-large-2411">>
    /\ Cardinality(InvokesOf("OpenRouter")) = 2
    /\ InvokesOf("Gemini") = {}

\* C8: under generic failures each provider is attempted at most max_retries
\* (2) times; after failed attempt number n (1-based) that is not the last
\* the gateway sleeps n seconds and then attempts the same provider again;
\* it never sleeps after a provider's final attempt or after a rate-limit
\* signal, and never anywhere else.
C8_BoundedRetriesLinearBackoff ==
    /\ \A p \in 1..Len(providers) :
         Cardinality(InvokesOf(providers[p])) <= 2
    /\ \A i \in LogIdx :
         gw_log[i].ev = "raised" =>
           IF gw_log[i].error \notin RateSignal /\ gw_log[i].attempt + 1 < 2
           THEN /\ gw_pc = "sleep" \/ i < Len(gw_log)
                /\ i < Len(gw_log) =>
                     gw_log[i + 1] = [ev |-> "sleep", provider |-> gw_log[i].provider,
                                      secs |-> gw_log[i].attempt + 1]
           ELSE /\ gw_pc # "sleep" \/ i < Len(gw_log)
                /\ i < Len(gw_log) => gw_log[i + 1].ev # "sleep"
    /\ \A i \in LogIdx :
         gw_log[i].ev = "sleep" =>
           /\ i > 1 /\ gw_log[i - 1].ev = "raised"
           /\ i < Len(gw_log) =>
                gw_log[i + 1] = [ev |-> "invoke", provider |-> gw_log[i].provider,
                                 attempt |-> gw_log[i - 1].attempt + 1]

C8_Witness ==
    /\ gw_pc = "returned"
    /\ Cardinality(SleepsOf("OpenRouter")) = 1
    /\ Cardinality(SleepsOf("Gemini")) = 1
    /\ Cardinality(InvokesOf("OpenRouter")) = 2
    /\ Cardinality(InvokesOf("Gemini")) = 2
    /\ \E i \in LogIdx : gw_log[i].ev = "raised" /\ gw_log[i].error = "quota"

\* C9: a provider without credentials is attempted once, burns no retry and
\* takes no backoff sleep, and the gateway proceeds to the next provider.
C9_UnconfiguredProviderShortCircuits ==
    /\ ~gw_cfg.openrouter =>
         /\ Cardinality(InvokesOf("OpenRouter")) <= 1
         /\ SleepsOf("OpenRouter") = {}
    /\ ~gw_cfg.gemini =>
         /\ Cardinality(InvokesOf("Gemini")) <= 1
         /\ SleepsOf("Gemini") = {}



(***************************************************************************)
(* Reading the chat request                                                *)
(***************************************************************************)
\* ids of the rows of `rows` that belong to somebody other than u
ForeignIds(rows, u) == {i \in DOMAIN rows : rows[i].user_id # u}

\* the titles of u's tasks before or after a step
OwnTitles(u) ==
    {tasks[i].title : i \in DOMAIN tasks \ ForeignIds(tasks, u)}
        \cup {tasks'[i].title : i \in DOMAIN tasks' \ ForeignIds(tasks', u)}
        \cup {pending[k].title : k \in 1..Len(pending)}

\* every task a tool result carries is u's
ResultIsOwn(result, u) ==
    /\ "tasks" \in DOMAIN result =>
         \A k \in 1..Len(result.tasks) : result.tasks[k].user_id = u
    /\ "task" \in DOMAIN result => result.task.user_id = u
    /\ (result.status = "success" /\ "title" \in DOMAIN result) =>
         result.title \in OwnTitles(u)

OwnershipStep ==
    /\ \A i \in ForeignIds(tasks, current_user) :
         i \in DOMAIN tasks' /\ tasks'[i] = tasks[i]
    /\ \A i \in DOMAIN tasks' :
         (i \notin DOMAIN tasks \/ tasks'[i] # tasks[i])
            => tasks'[i].user_id = current_user
    /\ \A k \in 1..Len(pending') : pending'[k].user_id = current_user
    /\ tool_result' # tool_result => ResultIsOwn(tool_result', current_user)

\* C1: in every step of a request of user u, whatever tool and arguments the
\* model supplied (ids of other users' tasks, a user_id argument), the tasks
\* of other users stay as they were, every task created, changed, deleted or
\* staged has user_id = u, and the tool result returns only u's tasks.
C1_OnlyOwnTasksTouched == [][OwnershipStep]_vars

\* a tool call naming another user's task and a user_id argument has run
C1_Witness ==
    /\ tools_run >= 1
    /\ ai_message = Text("bare", 16)
    /\ last_tool_name = "delete_task"
    /\ current_user = "alice"
    /\ 2 \in DOMAIN tasks /\ tasks[2].user_id = "bob"
    /\ tool_result.status = "error"

\* C2 as stated: a request makes at most 10 gateway calls and at most 10
\* tool executions, and has returned once the ceiling is reached.
C2_AtMostTenGatewayCalls ==
    /\ gateway_calls + nested_calls <= 10
    /\ tools_run <= 10
    /\ turn_count >= 10 => pc = "done"

\* C2 amended: the loop itself makes at most 10 gateway calls (one per turn)
\* and at most 10 tool executions and has returned once the ceiling is
\* reached; the day planner adds at most one gateway call per tool execution.
C2_LoopWithinCeiling ==
    /\ turn_count <= 10
    /\ gateway_calls = turn_count
    /\ tools_run <= turn_count
    /\ nested_calls <= tools_run
    /\ pc = "await_model" => turn_count < 10
    /\ turn_count >= 10 => (pc = "done" /\ "response" \in DOMAIN response)

C2_Witness ==
    /\ pc = "done"
    /\ gateway_calls = 10
    /\ tools_run = 10
    /\ nested_calls = 10

\* a reply that is a JSON tool call the catalog admits
ValidToolCall(text) ==
    LET data == extract_json(text) IN
    /\ Truthy(data)
    /\ data.t = "obj"
    /\ "tool" \in DOMAIN data.v
    /\ data.v.tool \in Range(Catalog)
    /\ Required(data.v.tool) \subseteq DOMAIN Get(data.v, "arguments", NoArgs)

\* the replies of the turns so far, oldest first
RepliesSoFar ==
    LET said == SelectSeq(messages, LAMBDA m : m.role = "assistant")
        earlier == [i \in 1..Len(said) |-> said[i].content.text]
    IN IF turn_count > Len(earlier) THEN Append(earlier, ai_message) ELSE earlier

\* C3: while every reply so far was a valid JSON tool call, one tool has been
\* executed per turn, the loop has not returned before turn 10, and at turn
\* 10 it returns the canned completion text with action_performed = true.
C3_ToolCallsRunToCeiling ==
    (\A i \in 1..Len(RepliesSoFar) : ValidToolCall(RepliesSoFar[i]))
        => /\ Len(RepliesSoFar) = turn_count
           /\ tools_run = turn_count
           /\ turn_count < 10 => pc # "done"
           /\ turn_count = 10 =>
                /\ pc = "done"
                /\ response = [response |-> CannedText, action_performed |-> TRUE,
                               tool |-> last_tool_name, model |-> used_model]

C3_Witness ==
    /\ pc = "done"
    /\ turn_count = 10
    /\ tools_run = 10
    /\ \A i \in 1..Len(RepliesSoFar) : ValidToolCall(RepliesSoFar[i])
    /\ response.response = CannedText

\* a text in which no JSON value stands
NoJsonSubstring(text) ==
    \A i \in 1..Len(TextAtoms(text)) : TextAtoms(text)[i].k # "json"

\* C4: when the first reply is prose with no JSON in it, the interpreter
\* yields nothing and the request ends on turn 1 with that text as the
\* answer: one gateway call, no tool execution, action_performed = false.
C4_ProseEndsOnTurnOne ==
    (turn_count = 1 /\ NoJsonSubstring(ai_message))
        => /\ ~Truthy(extract_json(ai_message))
           /\ pc = "done"
           /\ response = [response |-> ai_message, action_performed |-> FALSE,
                          tool |-> None, model |-> used_model]
           /\ gateway_calls = 1
           /\ nested_calls = 0
           /\ tools_run = 0
           /\ action_performed = FALSE

C4_Witness ==
    /\ pc = "done"
    /\ turn_count = 1
    /\ ai_message = Text("braces", 0)
    /\ response.response = Text("braces", 0)

\* C10: whenever chat_endpoint has returned, the result carries the four
\* fields response, action_performed, tool and model.
C10_EnvelopeHasFourFields ==
    pc = "done" =>
        DOMAIN response = {"response", "action_performed", "tool", "model"}

\* a turn of the request has raised inside the try block
TurnRaised ==
    /\ turn_count >= 1
    /\ \/ tool_result.status = "raised"
       \/ LET data == extract_json(ai_message)
          IN Truthy(data) /\ data.t # "obj"

\* C11: an exception raised inside a turn (the interpreter's value has no
\* .get, the tool executor raises) never leaves chat_endpoint: the request
\* returns, and what it returns is the apology text.
C11_ExceptionsBecomeApology ==
    /\ pc \in {"start", "await_model", "done"}
    /\ TurnRaised => (pc = "done" /\ response.response = ApologyText)

C11_Witness ==
    /\ pc = "done"
    /\ tool_result.status = "raised"
    /\ tool_result.message = "IntegrityError"
    /\ response.response = ApologyText

\* a parsed value with the shape of a tool invocation
ToolInvocationShaped(data) == data.t = "obj" /\ "tool" \in DOMAIN data.v

\* C12: the interpreter yields nothing or a tool-invocation-shaped mapping,
\* and a reply that is not a structured tool call ends the turn as the final
\* answer, never as the apology.
C12_InterpretationNeverAnError ==
    turn_count >= 1 =>
        LET data == extract_json(ai_message) IN
        /\ ~Truthy(data) \/ ToolInvocationShaped(data)
        /\ ~ToolInvocationShaped(data) =>
              (pc = "done" /\ response.response = ai_message)

\* the first of the attempts (in order) that parsed, None when none did
FirstParsed(attempts) ==
    LET oks == {i \in 1..Len(attempts) : attempts[i].ok}
    IN IF oks = {} THEN Null
       ELSE attempts[CHOOSE i \in oks : \A j \in oks : i <= j].v

NotParsed == [ok |-> FALSE, v |-> Null]

\* the four strategies, each on its own
WholeText(atoms) == JsonLoads(atoms)

JsonFence(atoms) ==
    IF HasKind(atoms, {"fencejson"})
    THEN JsonLoads(FencedBlock(atoms, {"fencejson"}))
    ELSE NotParsed

\* text.split("```")[1].split("```")[0]; after a ```json marker the content
\* starts with the word json
AnyFence(atoms) ==
    IF ~HasKind(atoms, {"fence", "fencejson"}) THEN NotParsed
    ELSE LET first == CHOOSE i \in 1..Len(atoms) :
                         /\ IsFence(atoms[i])
                         /\ \A j \in 1..(i - 1) : ~IsFence(atoms[j])
         IN IF atoms[first].k = "fencejson" THEN NotParsed
            ELSE JsonLoads(FencedBlock(atoms, {"fence", "fencejson"}))

AnyFenceUnlessJsonMarker(atoms) ==
    IF HasKind(atoms, {"fencejson"}) THEN NotParsed ELSE AnyFence(atoms)

SameJson(a, b) == a.t = b.t /\ a = b

\* C13 as stated: extract_json returns the first that parses of the whole
\* text, the ```json block, any fenced block, the outermost {...} span, each
\* tried whenever the earlier ones failed; None only when all four fail.
C13_FourStrategiesInOrder ==
    turn_count >= 1 =>
        LET atoms == TextAtoms(ai_message) IN
        SameJson(extract_json(ai_message),
                 FirstParsed(<<WholeText(atoms), JsonFence(atoms),
                               AnyFence(atoms), RegexObject(atoms)>>))

\* C13 amended: as stated, except that the any-fenced-block strategy is
\* tried only for a text without a ```json marker.
C13_StrategiesAsCoded ==
    turn_count >= 1 =>
        LET atoms == TextAtoms(ai_message) IN
        /\ SameJson(extract_json(ai_message),
                    FirstParsed(<<WholeText(atoms), JsonFence(atoms),
                                  AnyFenceUnlessJsonMarker(atoms),
                                  RegexObject(atoms)>>))
        /\ ai_message.form = "bare" =>
              SameJson(extract_json(ai_message), JsonValues[ai_message.call])

\* a reply the generic-fence strategy alone parses has been interpreted
C13_Witness ==
    /\ turn_count >= 1
    /\ ai_message = Text("fenced", 5)
    /\ last_tool_name = "list_tasks"
    /\ ~WholeText(TextAtoms(ai_message)).ok
    /\ ~JsonFence(TextAtoms(ai_message)).ok
    /\ AnyFence(TextAtoms(ai_message)).ok

\* a step in which the loop handed a parsed mapping to the executor
ToolStep ==
    /\ pc = "await_model"
    /\ turn_count' = turn_count + 1
    /\ Truthy(extract_json(ai_message'))
    /\ extract_json(ai_message').t = "obj"

StepTool == Get(extract_json(ai_message').v, "tool", None)

StepArgs == Get(extract_json(ai_message').v, "arguments", NoArgs)

\* the committed rows of the store
Committed(rows) == [i \in {j \in DOMAIN rows : rows[j].committed} |-> rows[i]]

UnknownToolStep ==
    (ToolStep /\ StepTool \notin Range(Catalog)) =>
        /\ tool_result'.status = "raised"
        /\ tool_result'.message = "Tool not found"
        /\ pc' = "done"
        /\ response'.response = ApologyText
        /\ messages' = messages
        /\ tasks' = Committed(tasks)
        /\ pending' = <<>>

\* C14: a call for a name outside the catalog (or without a name) raises
\* "Tool not found", which is not an error result fed back to the model: the
\* turn is fatal, the caller gets the apology, and no task row is written.
C14_UnknownToolIsFatalError == [][UnknownToolStep]_vars

C14_Witness ==
    /\ pc = "done"
    /\ ai_message = Text("bare", 30)
    /\ tool_result.message = "Tool not found"
    /\ response.response = ApologyText
    /\ tasks # <<>>

\* the tools whose required arguments the claim lists
ToolsWithRequired ==
    {"add_task", "complete_task", "update_task", "bulk_complete_tasks",
     "bulk_delete_tasks", "get_weather"}

MissingRequiredStep ==
    (/\ ToolStep
     /\ StepTool \in ToolsWithRequired
     /\ ~(Required(StepTool) \subseteq DOMAIN StepArgs)) =>
        /\ tool_result'.status = "error"
        /\ Committed(tasks') = Committed(tasks)
        /\ turn_count' < MAX_TURNS => pc' = "await_model"

\* C15: a call of add_task, complete_task, update_task, bulk_complete_tasks,
\* bulk_delete_tasks or get_weather without its required argument returns an
\* error result (it does not raise), leaves the stored tasks as they were,
\* and the loop goes on to the next turn.
C15_MissingRequiredIsErrorResult == [][MissingRequiredStep]_vars

ErrorResultStep ==
    (ToolStep /\ tools_run' = tools_run + 1 /\ tool_result'.status = "error") =>
        /\ turn_count' < MAX_TURNS => pc' = "await_model"
        /\ messages' = messages \o
              << [role |-> "assistant", content |-> [text |-> ai_message']],
                 [role |-> "user", content |-> [tool_output |-> tool_result']] >>
        /\ response' = response
        /\ history' = history

\* C16: when a tool returns a result with status error, nothing is returned
\* to the caller: the reply text and the error result are appended to the
\* message list and, the turn budget allowing, the loop awaits the next
\* provider reply.
C16_ErrorResultGoesBackToModel == [][ErrorResultStep]_vars

\* the turn after an error result has taken place
C16_Witness ==
    /\ turn_count >= 2
    /\ Len(messages) >= 4
    /\ messages[4].content.tool_output.status = "error"
    /\ messages[4].content.tool_output.message = "Task with ID not found."

\* two rows that differ at most in having been committed
SameRow(a, b) == [a EXCEPT !.committed = TRUE] = [b EXCEPT !.committed = TRUE]

BulkStep ==
    (/\ ToolStep
     /\ StepTool \in {"bulk_complete_tasks", "bulk_delete_tasks"}
     /\ tools_run' = tools_run + 1) =>
        LET rows == Flush(TheDb).tasks
            requested == Range(Get(StepArgs, "task_ids", <<>>))
            own == {i \in DOMAIN rows :
                      i \in requested /\ rows[i].user_id = current_user}
            flag == Get(StepArgs, "completed", TRUE)
        IN /\ (tool_result'.status = "success") <=> (own # {})
           /\ own = {} => Committed(tasks') = Committed(tasks)
           /\ own # {} =>
                /\ tool_result'.count = Cardinality(own)
                /\ IF StepTool = "bulk_delete_tasks"
                   THEN /\ DOMAIN tasks' = DOMAIN rows \ own
                        /\ \A i \in DOMAIN tasks' : SameRow(tasks'[i], rows[i])
                   ELSE /\ DOMAIN tasks' = DOMAIN rows
                        /\ \A i \in own :
                             SameRow(tasks'[i], [rows[i] EXCEPT !.completed = flag])
                        /\ \A i \in DOMAIN rows \ own : SameRow(tasks'[i], rows[i])

\* C17: bulk_complete_tasks and bulk_delete_tasks change exactly the
\* requested ids that are rows of the caller and report that number; ids
\* that do not exist or belong to somebody else are neither touched nor
\* counted.
C17_BulkCountsOwnRowsOnly == [][BulkStep]_vars

C17_Witness ==
    /\ current_user = "alice"
    /\ ai_message = Text("bare", 17)
    /\ last_tool_name = "bulk_delete_tasks"
    /\ tool_result.status = "success"
    /\ tool_result.count = 1
    /\ 1 \notin DOMAIN tasks
    /\ 2 \in DOMAIN tasks /\ tasks[2].user_id = "bob"

\* title contains part, letter case apart
CiContains(title, part) == Contains(LowerStr(Chars(title)), LowerStr(Chars(part)))

DeleteStep ==
    (ToolStep /\ StepTool = "delete_task" /\ tools_run' = tools_run + 1) =>
        LET rows == Flush(TheDb).tasks
            id == Get(StepArgs, "task_id", 0)
            title == Get(StepArgs, "title", "")
            own == {i \in DOMAIN rows : rows[i].user_id = current_user}
            byTitle == {i \in own : CiContains(rows[i].title, title)}
            target == IF id # 0 THEN own \cap {id}
                      ELSE IF title # "" THEN byTitle
                      ELSE {}
        IN /\ tool_result'.status \in {"success", "error"}
           /\ (tool_result'.status = "success") <=> (target # {})
           /\ target = {} => Committed(tasks') = Committed(tasks)
           /\ target # {} =>
                /\ \E i \in target : DOMAIN tasks' = DOMAIN rows \ {i}
                /\ \A i \in DOMAIN tasks' : SameRow(tasks'[i], rows[i])
           /\ (id = 0 /\ title = "") =>
                tool_result'.message = "Please provide either task_id or title to delete."

\* C18: delete_task deletes the caller's task with the given id when an id
\* is supplied; without an id it deletes one of the caller's tasks whose
\* title contains the given text, letter case apart; with neither it
\* returns an error result (no exception) and deletes nothing.
C18_DeleteByIdElseByTitle == [][DeleteStep]_vars

C18_Witness ==
    /\ current_user = "bob"
    /\ ai_message = Text("bare", 14)
    /\ last_tool_name = "delete_task"
    /\ tool_result.status = "success"
    /\ tool_result.title = "MILK run"
    /\ 2 \notin DOMAIN tasks

PlanStep ==
    (ToolStep /\ StepTool = "plan_day" /\ tools_run' = tools_run + 1) =>
        LET parsed == PlanParse(plan_reply')
            rows == Flush(TheDb).tasks
            new == DOMAIN tasks' \ DOMAIN rows
        IN IF ~parsed.ok \/ parsed.v.t # "list"
           THEN /\ tool_result'.status = "error"
                /\ new = {}
           ELSE IF parsed.v.v = <<>>
           THEN /\ tool_result'.message = "No tasks identified in your request."
                /\ new = {}
           ELSE /\ tool_result'.status = "success"
                /\ tool_result'.created = Len(parsed.v.v)
                /\ Cardinality(new) = Len(parsed.v.v)
                /\ \A i \in new : tasks'[i].user_id = current_user

\* C19: plan_day creates one task per element of the JSON list its own
\* gateway call returned; a reply that does not parse or is not a list gives
\* a result with status error, and an empty list gives the "nothing
\* identified" result.
C19_PlannerOneTaskPerElement == [][PlanStep]_vars

UserRow == [user_id |-> current_user, role |-> "user", content |-> UserText]

AssistantRow(text) == [user_id |-> current_user, role |-> "assistant", content |-> text]

HistoryStep ==
    /\ pc = "start" =>
          /\ history' = Append(history, UserRow)
          /\ gateway_calls = 0 /\ gateway_calls' = 0
    /\ gateway_calls' > gateway_calls =>
          /\ Len(history) >= 1
          /\ history[1] = UserRow
    /\ pc # "start" =>
          \/ history' = history
          \/ /\ history' = Append(history, AssistantRow(ai_message'))
             /\ Len(history) = 1
             /\ ~Truthy(extract_json(ai_message'))
             /\ pc' = "done"
             /\ response'.response = ai_message'
    /\ ToolStep => history' = history
    /\ (pc' = "done" /\ response' \in {CeilingEnvelope(last_tool_name', used_model'), ErrorEnvelope})
          => history' = history
    /\ \A i \in 1..Len(history) : i <= Len(history') /\ history'[i] = history[i]

\* C20: a chat request first stores the user's message, before any provider
\* call, and afterwards stores at most one more row, the assistant's message,
\* in the step that returns a final textual answer; tool turns, the ceiling
\* and the apology store nothing, and a stored row never changes.
C20_HistoryUserThenFinalAnswer == [][HistoryStep]_vars

C20_Witness ==
    /\ pc = "done"
    /\ tools_run >= 1
    /\ Len(history) = 2
    /\ history[1].role = "user"
    /\ history[2].role = "assistant"
    /\ history[2].content = ai_message

\* the tool named by the latest assistant text of the in-memory message list
LastToolInMessages ==
    IF Len(messages) <= 2 THEN None
    ELSE Get(extract_json(messages[Len(messages) - 1].content.text).v, "tool", None)

FinalAnswerStep ==
    (pc = "await_model" /\ pc' = "done" /\ Len(history') > Len(history)) =>
        /\ response'.response = ai_message'
        /\ response'.action_performed = (tools_run > 0)
        /\ (response'.tool = None) = (tools_run = 0)
        /\ response'.tool = LastToolInMessages
        /\ response'.model = used_model'
        /\ gateway_calls' = gateway_calls + 1
        /\ nested_calls' = nested_calls

\* C21: in the step that returns a final text answer, action_performed is
\* true exactly when a tool was executed earlier in the request, tool is the
\* name in the latest executed tool call (None exactly when none ran), and
\* model is the identifier returned by the gateway call of that same step.
C21_FinalEnvelopeReportsTools == [][FinalAnswerStep]_vars

C21_Witness ==
    /\ pc = "done"
    /\ Len(history) = 2
    /\ tools_run = 2
    /\ response.action_performed
    /\ response.tool = "list_tasks"
    /\ response.model = FallbackId
    /\ Get(extract_json(messages[3].content.text).v, "tool", None) # "list_tasks"

\* the previous tool turn was a successful add_task and this one is
\* list_tasks with status "all"
ListAfterAdd ==
    /\ ToolStep
    /\ StepTool = "list_tasks"
    /\ Get(StepArgs, "status", None) = "all"
    /\ tools_run' = tools_run + 1
    /\ last_tool_name = "add_task"
    /\ tool_result.status = "success"

\* the arguments of the add_task call of the previous turn
AddedArgs == Get(extract_json(ai_message).v, "arguments", NoArgs)

\* the listing of this step holds the task the previous step created
ListedAsCreated ==
    \E i \in 1..Len(tool_result'.tasks) :
        LET t == tool_result'.tasks[i] IN
        /\ t.id = tool_result.task.id
        /\ t.user_id = current_user
        /\ t.title = AddedArgs.title
        /\ t.priority = Get(AddedArgs, "priority", "medium")
        /\ t.tags = Get(AddedArgs, "tags", <<>>)
        /\ t.title = tool_result.task.title
        /\ t.priority = tool_result.task.priority
        /\ t.tags = tool_result.task.tags

\* the number of rows the user owns
OwnCount(rows, user_id) == Cardinality({i \in DOMAIN rows : rows[i].user_id = user_id})

RoundTripStep == ListAfterAdd => ListedAsCreated

\* C22: a task created by add_task appears, with the same title, priority
\* and tags, in the list_tasks(status="all") that follows, whatever other
\* tasks the user has.
C22_AddThenListRoundTrip == [][RoundTripStep]_vars

RoundTripWithinLimitStep ==
    (ListAfterAdd /\ OwnCount(tasks, current_user) <= Get(StepArgs, "limit", 20))
        => ListedAsCreated

\* C22 as the code has it: the created task appears in the following
\* list_tasks(status="all") with the same title, priority and tags when the
\* user's tasks are no more than the listing's limit (20 by default).
C22_RoundTripWithinLimit == [][RoundTripWithinLimitStep]_vars

C22_Witness ==
    /\ tools_run = 2
    /\ last_tool_name = "list_tasks"
    /\ messages[3].content.text = Text("bare", 2)
    /\ Len(tool_result.tasks) = MaxExisting
    /\ tool_result.tasks[MaxExisting].title = "Call mom"
    /\ tool_result.tasks[MaxExisting].priority = "high"
    /\ tool_result.tasks[MaxExisting].tags = <<"home">>

Priorities == {"high", "medium", "low"}

\* C23: every task in the store, committed or staged in the session, has
\* priority high, medium or low, whatever arguments the model supplied to
\* add_task, update_task and plan_day.
C23_StoredPriorityIsValid ==
    /\ \A i \in DOMAIN tasks : tasks[i].priority \in Priorities
    /\ \A i \in 1..Len(pending) : pending[i].priority \in Priorities

\* a step that calls the gateway from the loop: `messages` is what it sends
TurnStep == pc = "await_model" /\ turn_count' = turn_count + 1

IsPrefix(p, q) == Len(p) <= Len(q) /\ \A i \in 1..Len(p) : q[i] = p[i]

MessageListStep ==
    /\ pc = "start" =>
          messages' = << SystemInstruction(current_user, "en"),
                         [role |-> "user", content |-> [text |-> UserText]] >>
    /\ pc # "start" => IsPrefix(messages, messages')
    /\ TurnStep =>
          /\ Len(messages) = 2 * turn_count'
          /\ messages[1].role = "system"
          /\ messages[2] = [role |-> "user", content |-> [text |-> UserText]]
          /\ \A k \in 2..turn_count' :
                /\ messages[2 * k - 1].role = "assistant"
                /\ messages[2 * k].role = "user"
                /\ DOMAIN messages[2 * k].content = {"tool_output"}
          /\ IF Len(messages') > Len(messages)
             THEN /\ ToolStep
                  /\ messages' = messages \o
                       << [role |-> "assistant", content |-> [text |-> ai_message']],
                          [role |-> "user", content |-> [tool_output |-> tool_result']] >>
             ELSE pc' = "done"

\* C24: the message list the loop sends is append-only: on turn 1 it is the
\* system instruction and the user's message, every tool turn appends the
\* assistant's raw text and a user message with the tool result, so turn k
\* sends 2k messages that begin with the list of turn k-1.
C24_MessagesAppendOnly == [][MessageListStep]_vars

C24_Witness ==
    /\ pc = "await_model"
    /\ turn_count = 3
    /\ Len(messages) = 8
    /\ messages[3].content.text # messages[5].content.text
    /\ messages[8].content.tool_output = tool_result

\* the gateway calls of request q that ended in a tool result
ToolTurnsOf(q) == {i \in 1..Len(q.log) : q.log[i].result.status # None}

\* the message list request q has after its first n gateway calls, rebuilt
\* from the request and from what those calls and its tools returned
RECURSIVE Replay(_, _)
Replay(q, n) ==
    IF n = 0
    THEN << SystemInstruction(q.user_id, "en"),
            [role |-> "user", content |-> [text |-> q.message]] >>
    ELSE IF n \in ToolTurnsOf(q)
    THEN Replay(q, n - 1) \o
           << [role |-> "assistant", content |-> [text |-> q.log[n].reply]],
              [role |-> "user", content |-> [tool_output |-> q.log[n].result]] >>
    ELSE Replay(q, n - 1)

OwnFrame(r) ==
    LET q == reqs[r]
        f == q.frame
        ran == ToolTurnsOf(q)
    IN IF f.pc = "start" THEN q.log = <<>> /\ f.messages = <<>> /\ f.turn_count = 0
       ELSE /\ f.messages = Replay(q, Len(q.log))
            /\ \A i \in 1..Len(q.log) : q.log[i].sent = Replay(q, i - 1)
            /\ f.turn_count = Cardinality({i \in 1..Len(q.log) : q.log[i].reply # NoText})
            /\ f.action_performed = (ran # {})
            /\ f.last_tool_name =
                  IF ran = {} THEN None
                  ELSE Get(extract_json(q.log[Max(ran)].reply).v, "tool", None)

\* a step runs one call and leaves the other call's request, frame and log
\* as they were
OneCallPerStep ==
    \A r \in Requests :
        reqs'[r] # reqs[r] => \A o \in Requests \ {r} : reqs'[o] = reqs[o]

\* C25: chat requests in progress at the same time, for the same user or for
\* different users, do not affect each other: a step changes one request's
\* frame only, and each request's message list, turn counter,
\* action_performed flag and last tool name follow from its own message and
\* its own replies and tool results; each gateway call is given that
\* request's own messages.
C25_ConcurrentRequestsIndependent ==
    [](\A r \in Requests : OwnFrame(r)) /\ [][OneCallPerStep]_vars

C25_Witness ==
    /\ reqs # <<>>
    /\ reqs[1].frame.pc = "await_model"
    /\ reqs[2].frame.pc = "await_model"
    /\ reqs[2].user_id = "alice"
    /\ reqs[1].frame.turn_count = 2
    /\ reqs[2].frame.turn_count = 1
    /\ reqs[1].frame.last_tool_name = "list_tasks"
    /\ reqs[2].frame.last_tool_name = "add_task"
    /\ Len(reqs[1].log[3].sent[6].content.tool_output.tasks) = 3

ToolNotFound(result) == result.status = "raised" /\ result.message = "Tool not found"

\* no catalog name falls through to the final raise of handle_tool_call
CatalogDispatched ==
    \A i \in 1..Len(Catalog) :
        ~ToolNotFound(HandleToolCall(Catalog[i], NoArgs, "alice",
                                     [tasks |-> <<>>, pending |-> <<>>],
                                     [weather |-> "ok", plan |-> Text("bare", 34)]).result)

DispatchStep ==
    /\ CatalogDispatched
    /\ (ToolStep /\ tools_run' = tools_run + 1) =>
          (ToolNotFound(tool_result') <=> StepTool \notin Range(Catalog))

\* C26: handle_tool_call has a branch for every name of list_tools(): a call
\* ends in the "Tool not found" error exactly when its name is not in the
\* catalog.
C26_EveryCatalogToolDispatched == [][DispatchStep]_vars

C26_Witness ==
    /\ tools_run = 2
    /\ last_tool_name = "get_deployment_blueprint"
    /\ tool_result.status = "success"
    /\ Get(extract_json(messages[3].content.text).v, "tool", None) = "schedule_reminder"

AddedStep == tm_last'.op = "add_task" /\ tm_last'.raised = None

IdsStep ==
    /\ \A i \in DOMAIN tm_tasks' : tm_tasks'[i].id = i /\ i < tm_next_id'
    /\ tm_next_id' >= tm_next_id
    /\ DOMAIN tm_tasks' \ DOMAIN tm_tasks \subseteq {tm_next_id}
    /\ AddedStep =>
          /\ tm_last'.task_id = tm_next_id
          /\ tm_next_id' = tm_next_id + 1
          /\ tm_next_id \notin DOMAIN tm_tasks
          /\ DOMAIN tm_tasks' = DOMAIN tm_tasks \cup {tm_next_id}
          /\ \A i \in DOMAIN tm_tasks : tm_tasks'[i] = tm_tasks[i]
    /\ (tm_last'.op = "add_task" /\ tm_last'.raised = "ValueError") =>
          /\ tm_tasks' = tm_tasks
          /\ tm_next_id' = tm_next_id
    /\ ~AddedStep => tm_next_id' = tm_next_id

\* C27: the console TaskManager gives the successful add_task calls the ids
\* 1, 2, 3, ... in order: an add stores the task under the next id, which is
\* above every id ever stored, so ids are unique and a deleted id does not
\* come back; an add_task that raises ValueError changes neither the store
\* nor the next id.
C27_IdsIncrementNeverReused == [][IdsStep]_vars

C27_Witness ==
    /\ tm_last = Call("add_task", 2, None)
    /\ DOMAIN tm_tasks = {2}
    /\ tm_next_id = 3

ValidTask(task) ==
    /\ StrLen(Strip(task.title)) > 0
    /\ StrLen(task.title) <= 200
    /\ StrLen(task.description) <= 1000

UpdateRaisedStep ==
    (tm_last'.op = "update_task" /\ tm_last'.raised = "ValueError") =>
        tm_tasks' = tm_tasks

\* C28: every task the console TaskManager stores has a title that is not
\* blank and has at most 200 characters and a description of at most 1000
\* characters, and an update_task that raises leaves the task as it was.
C28_StoredTasksStayValid ==
    [](\A i \in DOMAIN tm_tasks : ValidTask(tm_tasks[i])) /\ [][UpdateRaisedStep]_vars

ByIdOps == {"get_task", "update_task", "delete_task", "toggle_complete"}

NotFoundStep ==
    tm_last'.op \in ByIdOps =>
        /\ (tm_last'.raised = "TaskNotFoundError") = (tm_last'.task_id \notin DOMAIN tm_tasks)
        /\ tm_last'.task_id \notin DOMAIN tm_tasks =>
              /\ tm_tasks' = tm_tasks
              /\ tm_next_id' = tm_next_id
        /\ (tm_last'.op = "delete_task" /\ tm_last'.raised = None) =>
              /\ DOMAIN tm_tasks' = DOMAIN tm_tasks \ {tm_last'.task_id}
              /\ \A i \in DOMAIN tm_tasks' : tm_tasks'[i] = tm_tasks[i]

\* C29: get_task, update_task, delete_task and toggle_complete raise
\* TaskNotFoundError exactly for an id that is not stored, and then change
\* neither the store nor the next id; a delete_task that succeeds removes
\* that task and nothing else.
C29_MissingIdRaisesNotFound == [][NotFoundStep]_vars

C29_Witness ==
    /\ tm_last = Call("toggle_complete", 1, "TaskNotFoundError")
    /\ DOMAIN tm_tasks = {2}
    /\ tm_next_id = 3

AscendingIds(list) ==
    \A a, b \in 1..Len(list) : a < b => list[a].id < list[b].id

\* C30: count() = count_completed() + count_pending(); the completed and
\* the pending listing split the full listing by the completed flag; every
\* listing is in ascending id order.
C30_CountsAndListingsAgree ==
    LET all == TM_list_tasks(None)
        done == TM_list_tasks("completed")
        open == TM_list_tasks("pending")
    IN /\ TM_count = TM_count_completed + TM_count_pending
       /\ Len(all) = TM_count
       /\ Len(done) = TM_count_completed
       /\ Len(open) = TM_count_pending
       /\ Range(all) = {tm_tasks[i] : i \in DOMAIN tm_tasks}
       /\ Range(done) = {t \in Range(all) : t.completed}
       /\ Range(open) = {t \in Range(all) : ~t.completed}
       /\ AscendingIds(all) /\ AscendingIds(done) /\ AscendingIds(open)

C30_Witness ==
    /\ TM_count = 2
    /\ TM_count_completed = 1
    /\ TM_count_pending = 1
    /\ tm_tasks[1].completed
    /\ Len(TM_list_tasks("pending")) = 1

ToggledStep == tm_last'.op = "toggle_complete" /\ tm_last'.raised = None

ToggleStep ==
    ToggledStep =>
        LET id == tm_last'.task_id IN
        /\ id \in DOMAIN tm_tasks
        /\ DOMAIN tm_tasks' = DOMAIN tm_tasks
        /\ tm_tasks'[id].completed = ~tm_tasks[id].completed
        /\ tm_tasks'[id].id = tm_tasks[id].id
        /\ tm_tasks'[id].title = tm_tasks[id].title
        /\ tm_tasks'[id].description = tm_tasks[id].description
        /\ \A o \in DOMAIN tm_tasks \ {id} : tm_tasks'[o] = tm_tasks[o]
        /\ tm_next_id' = tm_next_id
        /\ tm_last'.returned = tm_tasks'[id]
        /\ tm_last'.returned.completed = ~tm_tasks[id].completed
        \* toggling the task once more gives back the task as it was
        /\ Task_toggle_complete(tm_tasks'[id]).task = tm_tasks[id]
        /\ Task_toggle_complete(tm_tasks'[id]).returned = tm_tasks[id].completed

RateLimitedRequest(i) ==
    /\ gw_log[i].ev = "request"
    /\ gw_log[i].provider = "OpenRouter"
    /\ gw_log[i].outcome # "ok"
    /\ IsRateLimit(gw_log[i].outcome)

\* C35: once an OpenRouter model attempt has raised an error containing
\* "429", "rate" or "quota", whichever model it was, dual_provider_chat does
\* not invoke OpenRouter again in the same call.
C35_AnyRateLimitEndsPrimary ==
    \A i, j \in LogIdx :
        (i < j /\ RateLimitedRequest(i)) =>
            ~(gw_log[j].ev = "invoke" /\ gw_log[j].provider = "OpenRouter")

\* what the day planner's result says when it did not produce a plan
PlanFailed(result) ==
    result.message \in {"Failed to generate plan", "Error: AI returned, expected list."}

StoredIds(rows) == DOMAIN Committed(rows)

PlanAllOrNothingStep ==
    \* the failing call itself stores nothing
    /\ (ToolStep /\ StepTool = "plan_day" /\ tools_run' = tools_run + 1
          /\ PlanFailed(tool_result'))
          => StoredIds(tasks') = StoredIds(tasks)
    \* nor does the commit of the final answer that follows it
    /\ (pc = "await_model" /\ last_tool_name = "plan_day" /\ PlanFailed(tool_result)
          /\ Len(history') > Len(history))
          => StoredIds(tasks') = StoredIds(tasks)

\* C36: when plan_day reports a failure, none of the tasks it staged is
\* stored, neither by the call itself nor by a later commit on the request's
\* session such as the one that stores the final assistant message.
C36_FailedPlanStoresNothing == [][PlanAllOrNothingStep]_vars


DeleteFrameStep ==
    (ToolStep /\ StepTool = "delete_task" /\ tools_run' = tools_run + 1) =>
        LET rows == Flush(TheDb).tasks
            id == Get(StepArgs, "task_id", 0)
            title == Get(StepArgs, "title", "")
        IN IF tool_result'.status = "success"
           THEN \E i \in DOMAIN rows :
                  /\ rows[i].user_id = current_user
                  /\ id = 0 => CiContains(rows[i].title, title)
                  /\ DOMAIN tasks' = DOMAIN rows \ {i}
                  /\ \A j \in DOMAIN tasks' : SameRow(tasks'[j], rows[j])
           ELSE \A i \in DOMAIN Committed(tasks) :
                  i \in DOMAIN tasks' /\ SameRow(tasks'[i], tasks[i])

\* C37: a successful delete_task call removes exactly one task, a task of
\* the caller whose title, when the task was selected by title, contains
\* the given text, letter case apart; every other task, other tasks with a
\* matching title included, is left as it was, and a failed call removes
\* nothing.
C37_DeleteRemovesOneMatchingTask == [][DeleteFrameStep]_vars

FallbackStep ==
    /\ (TurnStep /\ used_model' = FallbackId) =>
          /\ pc' = "done"
          /\ ai_message' = DegradedText
          /\ response' = [response |-> DegradedText,
                          action_performed |-> tools_run > 0,
                          tool |-> last_tool_name,
                          model |-> FallbackId]
          /\ tools_run' = tools_run
          /\ nested_calls' = nested_calls
          /\ action_performed' = action_performed
          /\ messages' = messages
    /\ (pc # "start" /\ used_model = FallbackId) =>
          /\ gateway_calls' = gateway_calls
          /\ nested_calls' = nested_calls
          /\ tools_run' = tools_run

\* C38: a turn whose gateway call returns the identifier "fallback" ends the
\* loop in that step: the response is the degraded-service text with model
\* "fallback", no tool runs in the step, action_performed is true exactly
\* when a tool ran on an earlier turn, and no later step of the request
\* calls the gateway or runs a tool.
C38_FallbackEndsTheLoop == [][FallbackStep]_vars

C38_Witness ==
    /\ pc = "done"
    /\ used_model = FallbackId
    /\ response.response = DegradedText
    /\ response.action_performed
    /\ tools_run = 1
    /\ turn_count = 2
    /\ gateway_calls = 2

\* ---- claims about the authentication routes
\* the step answers a request to the route op
AuthStep(op) == ticks' = ticks /\ auth_last'.op = op

\* a run of MAX_LOGIN_ATTEMPTS 401 answers for email, none of them followed
\* by a successful login, the first and the last at most
\* LOCKOUT_DURATION_MINUTES apart, the last at most that long ago
Locked(email) ==
    LET f == failed_at[email]
    IN /\ Len(f) = MAX_LOGIN_ATTEMPTS
       /\ f[Len(f)] - f[1] <= LOCKOUT_DURATION_MINUTES
       /\ now <= f[Len(f)] + LOCKOUT_DURATION_MINUTES

RateLimitStep ==
    AuthStep("login") =>
        LET email == auth_last'.email
            f == failed_at[email]
        IN /\ Locked(email) => auth_last'.status = 429
           /\ auth_last'.status = 429 =>
                /\ Len(f) = MAX_LOGIN_ATTEMPTS
                /\ now <= f[Len(f)] + LOCKOUT_DURATION_MINUTES
           /\ auth_last'.status = 429 => minted' = minted

\* C33: once five logins for an address have failed within 15 minutes, with
\* no successful login since, every login for that address is answered 429,
\* the right password included, as long as no more than 15 minutes have
\* passed since the last of those failures; and 429 is answered only after
\* five failures since the last successful login.
C33_LoginRateLimited == [][RateLimitStep]_vars

C33_Witness ==
    /\ auth_last = Reply("login", 429, "amy@x.io", 0, 0, 0)
    /\ failed_at["amy@x.io"] = <<0, 0, 0, 0, 1>>
    /\ now = 1 + LOCKOUT_DURATION_MINUTES
    /\ failed_at["bo@x.io"] = <<>>

\* the tokens clients have seen what happen to
SeenTokens(what) == {e.token : e \in {x \in auth_seen : x.what = what}}

\* token is a refresh token made for a user before a password reset of that
\* user succeeded
ResetSince(token) ==
    \E e \in auth_seen :
        /\ e.what = "reset"
        /\ e.user_id = minted[token].user_id
        /\ token <= e.mark

\* token was returned by login or refresh and nothing has ended it
Usable(token) ==
    /\ token \in 1..Len(minted)
    /\ minted[token].kind = "refresh"
    /\ token \notin SeenTokens("exchanged") \cup SeenTokens("logged_out")
    /\ ~ResetSince(token)
    /\ now <= minted[token].at + Days(REFRESH_TOKEN_EXPIRE_DAYS)
    /\ users[minted[token].user_id].is_active

SingleUseStep ==
    AuthStep("refresh") =>
        LET token == auth_last'.token
        IN /\ token \in SeenTokens("exchanged") \cup SeenTokens("logged_out") =>
                auth_last'.status = 401
           /\ auth_last'.status \in {200, 401}
           /\ (auth_last'.status = 200) = Usable(token)
           /\ auth_last'.status = 200 =>
                /\ auth_last'.returned = Len(minted) + 1
                /\ minted' = Append(minted, [kind |-> "refresh",
                                             user_id |-> minted[token].user_id,
                                             at |-> now])
           /\ auth_last'.status = 401 => minted' = minted

\* C32: /auth/refresh answers 401 to a refresh token that an earlier
\* successful refresh exchanged or that was presented to /auth/logout, and
\* it accepts a token returned by login or refresh that has not been
\* exchanged, logged out, reset or expired and whose account is enabled,
\* answering with a token never made before.
C32_RefreshTokenSingleUse == [][SingleUseStep]_vars

C32_Witness ==
    /\ auth_last = Reply("refresh", 401, None, 1, 0, 0)
    /\ 1 \in SeenTokens("exchanged")
    /\ 2 \in SeenTokens("logged_out")
    /\ Len(minted) = 2
    /\ users[1].is_active
    /\ now = 0

ResetOnceStep ==
    /\ AuthStep("reset_password") =>
          LET token == auth_last'.token
          IN /\ token \in SeenTokens("reset") => auth_last'.status = 400
             /\ auth_last'.status = 200 =>
                  /\ token \in 1..Len(minted)
                  /\ minted[token].kind = "reset"
                  /\ now <= minted[token].at + Hours(1)
                  /\ auth_last'.user_id = minted[token].user_id
    /\ AuthStep("refresh") =>
          LET token == auth_last'.token
          IN (token \in 1..Len(minted) /\ minted[token].kind = "refresh"
                /\ ResetSince(token)) => auth_last'.status = 401

\* C34: /auth/reset-password answers 400 to a token that an earlier
\* successful reset used, and after a successful reset /auth/refresh answers
\* 401 to every refresh token made for that user before the reset.
C34_ResetTokenSingleUseRevokesSessions == [][ResetOnceStep]_vars

C34_Witness ==
    /\ auth_last = Reply("refresh", 401, None, 1, 0, 0)
    /\ 2 \in SeenTokens("reset")
    /\ SeenTokens("exchanged") \cup SeenTokens("logged_out") = {}
    /\ users[1].is_active
    /\ now = 0

\* ids of the accounts whose flags allow a session
MayHaveSession == {i \in DOMAIN users : users[i].is_active /\ users[i].is_verified}

VerifiedOnlyStep ==
    /\ (Len(minted') > Len(minted) /\ minted'[Len(minted')].kind = "refresh") =>
          minted'[Len(minted')].user_id \in MayHaveSession
    /\ (AuthStep("login") /\ auth_last'.status = 200) =>
          /\ auth_last'.user_id \in MayHaveSession
          /\ Len(minted') > Len(minted)
    /\ (AuthStep("register") /\ auth_last'.status = 201) =>
          /\ Len(users') = Len(users) + 1
          /\ ~users'[Len(users')].is_verified
    /\ \A i \in DOMAIN users' :
          (users'[i].is_verified /\ (i \in DOMAIN users => ~users[i].is_verified)) =>
              /\ AuthStep("verify_email")
              /\ auth_last'.status = 200
              /\ auth_last'.user_id = i
    /\ (AuthStep("verify_email") /\ auth_last'.status = 200) =>
          LET token == auth_last'.token
          IN /\ token \in 1..Len(minted)
             /\ minted[token].kind = "verification"
             /\ minted[token].user_id = auth_last'.user_id
             /\ now <= minted[token].at + Hours(24)
             /\ token \notin SeenTokens("verified")
             /\ users'[auth_last'.user_id].is_verified

\* C39: login and refresh make a refresh token only for an account that is
\* enabled and verified; a registration creates the account unverified; an
\* account becomes verified only in a successful /auth/verify-email, which
\* takes a verification token made for that account at most 24 hours ago
\* that no successful verification has taken before.
C39_NoSessionUnlessVerifiedAndActive == [][VerifiedOnlyStep]_vars

C39_Witness ==
    /\ auth_last = Reply("login", 200, "bo@x.io", 0, 2, 3)
    /\ 2 \in SeenTokens("verified")
    /\ users[2].is_verified
    /\ now = Hours(1)

====
